---- MODULE Spec2Model ----
(***************************************************************************)
(* A model of avrow: the Avro object container file Writer and Reader,     *)
(* the binary encoder and decoder, validation and schema resolution.       *)
(*                                                                         *)
(* Bytes are integers 0..255 and byte strings are sequences of bytes.      *)
(* A Value is a record [tag, v]; a schema Variant is a record with a tag   *)
(* and the fields of the Rust variant; a Registry is a function from       *)
(* fullnames to Variants.  Floats are kept as their IEEE-754 fields and    *)
(* are packed to little-endian bytes when written.                         *)
(***************************************************************************)
EXTENDS Integers, Sequences, FiniteSets, TLC

\* ------------------------------------------------------------------------
\* Arithmetic helpers
\* ------------------------------------------------------------------------

RECURSIVE Pow2(_)
Pow2(k) == IF k = 0 THEN 1 ELSE 2 * Pow2(k - 1)

\* floor(log2 a) for a >= 1
RECURSIVE Log2(_)
Log2(a) == IF a < 2 THEN 0 ELSE 1 + Log2(a \div 2)

Abs(n) == IF n < 0 THEN -n ELSE n

RECURSIVE Concat(_)
Concat(ss) == IF ss = <<>> THEN <<>> ELSE Head(ss) \o Concat(Tail(ss))

Slice(s, from, n) == [i \in 1..n |-> s[from + i]]

\* body applied to value: `let r = value; body`, with value computed once
With(value, body(_)) == body(value)

\* The same, for long loops: TLC computes an operator's argument when it is
\* first used, and the comparison makes that happen before body is entered
Strict(value, body(_)) == IF value = value THEN body(value) ELSE body(value)

\* ------------------------------------------------------------------------
\* Varints (integer_encoding: zig-zag for the signed types, plain base-128
\* for usize), as used through util::encode_long and read_varint
\* ------------------------------------------------------------------------

ZigZag(n) == IF n >= 0 THEN 2 * n ELSE -2 * n - 1

UnZigZag(u) == IF u % 2 = 0 THEN u \div 2 ELSE -((u + 1) \div 2)

RECURSIVE UVarint(_)
UVarint(u) == IF u < 128 THEN <<u>> ELSE <<(u % 128) + 128>> \o UVarint(u \div 128)

\* writer.write_varint(i) for i32 and i64
write_varint(n) == UVarint(ZigZag(n))

\* util::encode_long
encode_long(n) == write_varint(n)

\* util::encode_raw_bytes
encode_raw_bytes(bs) == bs

\* The longest encoding read_varint accepts for a 64-bit integer
MaxVarintLen == 10

\* The largest varint value the model tells apart.  No count or length of
\* the model's files comes near it: a larger value read from damaged input
\* is kept as this one, a count that does not run out or a length that the
\* input does not have.
VarintCap == Pow2(30)

\* The value of base-128 digits, least significant first
RECURSIVE FromDigits(_)
FromDigits(digits) ==
    IF digits = <<>> THEN 0
    ELSE Strict(FromDigits(Tail(digits)), LAMBDA rest :
         IF rest >= VarintCap \div 128 THEN VarintCap ELSE Head(digits) + 128 * rest)

\* Reads the base-128 digits starting after position pos (0-based cursor).
\* Result: ok, the unsigned value, the new position, and the io error kind.
\* The value is computed when the last digit has been read, so an
\* unterminated run of digits is an error whatever its digits are.
RECURSIVE ReadUVarintFrom(_, _, _)
ReadUVarintFrom(buf, pos, digits) ==
    IF pos >= Len(buf)
    THEN [ok |-> FALSE, val |-> 0, pos |-> pos, err |-> "UnexpectedEof"]
    ELSE IF Len(digits) >= MaxVarintLen
    THEN [ok |-> FALSE, val |-> 0, pos |-> pos, err |-> "InvalidData"]
    ELSE IF buf[pos + 1] < 128
    THEN [ok |-> TRUE, val |-> FromDigits(Append(digits, buf[pos + 1])),
          pos |-> pos + 1, err |-> ""]
    ELSE ReadUVarintFrom(buf, pos + 1, Append(digits, buf[pos + 1] - 128))

\* reader.read_varint::<usize>()
read_varint_usize(buf, pos) == ReadUVarintFrom(buf, pos, <<>>)

\* reader.read_varint::<i32>() and ::<i64>()
read_varint(buf, pos) ==
    With(ReadUVarintFrom(buf, pos, <<>>), LAMBDA r :
    [r EXCEPT !.val = IF r.ok THEN UnZigZag(r.val) ELSE 0])

\* Read::read_exact on a cursor: all n bytes or UnexpectedEof
read_exact(buf, pos, n) ==
    IF pos + n <= Len(buf)
    THEN [ok |-> TRUE, val |-> Slice(buf, pos, n), pos |-> pos + n, err |-> ""]
    ELSE [ok |-> FALSE, val |-> <<>>, pos |-> pos, err |-> "UnexpectedEof"]

\* util::decode_bytes.  A negative length cast to usize asks for an
\* impossible allocation: the call panics.
decode_bytes(buf, pos) ==
    With(read_varint(buf, pos), LAMBDA len :
    IF ~len.ok THEN [ok |-> FALSE, val |-> <<>>, pos |-> len.pos, err |-> "DecodeFailed"]
    ELSE IF len.val < 0 THEN [ok |-> FALSE, val |-> <<>>, pos |-> len.pos, err |-> "panic"]
    ELSE With(read_exact(buf, len.pos, len.val), LAMBDA r :
         IF r.ok THEN r ELSE [r EXCEPT !.err = "DecodeFailed"]))

\* ------------------------------------------------------------------------
\* UTF-8 validation (str::from_utf8)
\* ------------------------------------------------------------------------

IsCont(b) == b >= 128 /\ b <= 191

\* The number of bytes of the character that byte b opens; 0 if b opens none
Utf8Width(b) ==
    IF b < 128 THEN 1
    ELSE IF b >= 194 /\ b <= 223 THEN 2
    ELSE IF b >= 224 /\ b <= 239 THEN 3
    ELSE IF b >= 240 /\ b <= 244 THEN 4
    ELSE 0

\* A well-formed character starts at position i
Utf8CharAt(bs, i) ==
    LET b == bs[i]
        w == Utf8Width(b) IN
    /\ w > 0
    /\ i + w - 1 <= Len(bs)
    /\ \A k \in 1..(w - 1) : IsCont(bs[i + k])
    /\ (b = 224 => bs[i + 1] >= 160)
    /\ (b = 237 => bs[i + 1] <= 159)
    /\ (b = 240 => bs[i + 1] >= 144)
    /\ (b = 244 => bs[i + 1] <= 143)

\* The continuation byte at position i belongs to the character opened by
\* the nearest byte before it that is not a continuation byte
Utf8Covered(bs, i) ==
    \E k \in 1..3 :
        /\ i - k >= 1
        /\ ~IsCont(bs[i - k])
        /\ Utf8Width(bs[i - k]) > k
        /\ \A t \in (i - k + 1)..(i - 1) : IsCont(bs[t])

from_utf8_ok(bs) ==
    \A i \in 1..Len(bs) :
        IF IsCont(bs[i]) THEN Utf8Covered(bs, i) ELSE Utf8CharAt(bs, i)

\* ------------------------------------------------------------------------
\* IEEE-754 floats.  An f32 is [s, e, m] (sign, biased exponent, 23-bit
\* mantissa); an f64 is [s, e, mh, ml] with the 52-bit mantissa split into
\* its upper and lower 26 bits.
\* ------------------------------------------------------------------------

\* `n as f32` for an integer n: round to nearest, ties to even
IntAsF32(n) ==
    IF n = 0 THEN [s |-> 0, e |-> 0, m |-> 0]
    ELSE LET a == Abs(n)
             k == Log2(a)
             sg == IF n < 0 THEN 1 ELSE 0 IN
         IF k <= 23
         THEN [s |-> sg, e |-> 127 + k, m |-> (a - Pow2(k)) * Pow2(23 - k)]
         ELSE LET sh == k - 23
                  q == a \div Pow2(sh)
                  r == a % Pow2(sh)
                  half == Pow2(sh - 1)
                  up == r > half \/ (r = half /\ q % 2 = 1)
                  q2 == IF up THEN q + 1 ELSE q IN
              IF q2 = Pow2(24)
              THEN [s |-> sg, e |-> 127 + k + 1, m |-> 0]
              ELSE [s |-> sg, e |-> 127 + k, m |-> q2 - Pow2(23)]

\* `n as f64` for an integer n below 2^31 in magnitude: always exact
IntAsF64(n) ==
    IF n = 0 THEN [s |-> 0, e |-> 0, mh |-> 0, ml |-> 0]
    ELSE LET a == Abs(n)
             k == Log2(a)
             frac == a - Pow2(k)
             sg == IF n < 0 THEN 1 ELSE 0 IN
         IF k <= 26
         THEN [s |-> sg, e |-> 1023 + k, mh |-> frac * Pow2(26 - k), ml |-> 0]
         ELSE [s |-> sg, e |-> 1023 + k,
               mh |-> frac \div Pow2(k - 26),
               ml |-> (frac % Pow2(k - 26)) * Pow2(52 - k)]

\* A widening that copies the exponent field without rebiasing it
F32AsF64KeepingBias(f) == [s |-> f.s, e |-> f.e, mh |-> f.m * 8, ml |-> 0]

\* `f as f64` for an f32
F32AsF64(f) ==
    IF f.e = 0 /\ f.m = 0 THEN [s |-> f.s, e |-> 0, mh |-> 0, ml |-> 0]
    ELSE IF f.e = 255 THEN [s |-> f.s, e |-> 2047, mh |-> f.m * 8, ml |-> 0]
    ELSE IF f.e = 0
    THEN LET k == Log2(f.m) IN
         [s |-> f.s, e |-> 1023 - 149 + k, mh |-> (f.m - Pow2(k)) * Pow2(26 - k), ml |-> 0]
    ELSE [s |-> f.s, e |-> f.e - 127 + 1023, mh |-> f.m * 8, ml |-> 0]

\* write_f32::<LittleEndian>
write_f32(f) ==
    << f.m % 256,
       (f.m \div 256) % 256,
       (f.e % 2) * 128 + f.m \div 65536,
       f.s * 128 + f.e \div 2 >>

\* read_f32::<LittleEndian> of four bytes
f32_from_le(b) ==
    [s |-> b[4] \div 128,
     e |-> (b[4] % 128) * 2 + b[3] \div 128,
     m |-> (b[3] % 128) * 65536 + b[2] * 256 + b[1]]

\* write_f64::<LittleEndian>
write_f64(d) ==
    << d.ml % 256,
       (d.ml \div 256) % 256,
       (d.ml \div 65536) % 256,
       (d.mh % 64) * 4 + d.ml \div Pow2(24),
       (d.mh \div 64) % 256,
       (d.mh \div Pow2(14)) % 256,
       (d.e % 16) * 16 + d.mh \div Pow2(22),
       d.s * 128 + d.e \div 16 >>

\* read_f64::<LittleEndian> of eight bytes
f64_from_le(b) ==
    [s |-> b[8] \div 128,
     e |-> (b[8] % 128) * 16 + b[7] \div 16,
     mh |-> (b[7] % 16) * Pow2(22) + b[6] * Pow2(14) + b[5] * 64 + b[4] \div 4,
     ml |-> (b[4] % 4) * Pow2(24) + b[3] * 65536 + b[2] * 256 + b[1]]

\* ------------------------------------------------------------------------
\* Values (value.rs) and schema variants (schema/mod.rs, schema/common.rs)
\* ------------------------------------------------------------------------

VNull == [tag |-> "Null", v |-> 0]
VBoolean(b) == [tag |-> "Boolean", v |-> b]
VInt(n) == [tag |-> "Int", v |-> n]
VLong(n) == [tag |-> "Long", v |-> n]
VFloat(f) == [tag |-> "Float", v |-> f]
VDouble(d) == [tag |-> "Double", v |-> d]
VBytes(bs) == [tag |-> "Bytes", v |-> bs]
VStr(bs) == [tag |-> "Str", v |-> bs]
VFixed(bs) == [tag |-> "Fixed", v |-> bs]
VEnum(sym) == [tag |-> "Enum", v |-> sym]
VArray(items) == [tag |-> "Array", v |-> items]
\* entries: the (key, value) pairs in the HashMap's iteration order
VMap(entries) == [tag |-> "Map", v |-> entries]
\* fields: the (name, value) pairs in insertion order (an IndexMap)
VRecord(name, fields) == [tag |-> "Record", v |-> [name |-> name, fields |-> fields]]

\* Record::insert on an IndexMap: a new key is appended, an existing key keeps
\* its place and gets the new value
RECURSIVE KeyIndexFrom(_, _, _)
KeyIndexFrom(pairs, key, i) ==
    IF i > Len(pairs) THEN 0
    ELSE IF pairs[i][1] = key THEN i ELSE KeyIndexFrom(pairs, key, i + 1)

KeyIndex(pairs, key) == KeyIndexFrom(pairs, key, 1)

IndexMapInsert(pairs, key, val) ==
    With(KeyIndex(pairs, key), LAMBDA i :
    IF i = 0 THEN Append(pairs, <<key, val>>)
    ELSE [pairs EXCEPT ![i] = <<key, val>>])

None == <<>>
Some(a) == <<a>>

MkName(name) == [name |-> name, namespace |-> None]

\* Name::fullname
fullname(n) ==
    IF n.namespace = None THEN n.name
    ELSE IF n.namespace[1] = "" THEN n.name
    ELSE n.namespace[1] \o "." \o n.name

SNull == [tag |-> "Null"]
SBoolean == [tag |-> "Boolean"]
SInt == [tag |-> "Int"]
SLong == [tag |-> "Long"]
SFloat == [tag |-> "Float"]
SDouble == [tag |-> "Double"]
SBytes == [tag |-> "Bytes"]
SStr == [tag |-> "Str"]
SRecord(name, fields) == [tag |-> "Record", name |-> name, aliases |-> None, fields |-> fields]
SFixed(name, size) == [tag |-> "Fixed", name |-> name, size |-> size]
SEnum(name, symbols) == [tag |-> "Enum", name |-> name, aliases |-> None, symbols |-> symbols]
SMap(values) == [tag |-> "Map", values |-> values]
SArray(items) == [tag |-> "Array", items |-> items]
SUnion(variants) == [tag |-> "Union", variants |-> variants]
SNamed(fname) == [tag |-> "Named", fullname |-> fname]

\* common::Field (order and aliases take no part in encoding or equality)
MkField(name, ty, default) == [name |-> name, ty |-> ty, default |-> default]

PrimitiveTags == {"Null", "Boolean", "Int", "Long", "Float", "Double", "Bytes", "Str"}

\* IndexMap<String, Field>::get
RECURSIVE FieldIndexFrom(_, _, _)
FieldIndexFrom(fields, name, i) ==
    IF i > Len(fields) THEN 0
    ELSE IF fields[i].name = name THEN i ELSE FieldIndexFrom(fields, name, i + 1)

FieldIndex(fields, name) == FieldIndexFrom(fields, name, 1)

\* Vec::iter().position / contains
RECURSIVE PositionFrom(_, _, _)
PositionFrom(seq, a, i) ==
    IF i > Len(seq) THEN 0
    ELSE IF seq[i] = a THEN i ELSE PositionFrom(seq, a, i + 1)

Position(seq, a) == PositionFrom(seq, a, 1)

\* #[derive(PartialEq)] on Variant, with Name compared by fullname, Field by
\* name and type, and the fields IndexMap compared as a map (order-blind)
RECURSIVE VariantEq(_, _), VariantSeqEq(_, _, _), FieldsSubEq(_, _, _)
VariantEq(a, b) ==
    IF a.tag # b.tag THEN FALSE
    ELSE IF a.tag \in PrimitiveTags THEN TRUE
    ELSE IF a.tag = "Record"
    THEN /\ fullname(a.name) = fullname(b.name)
         /\ a.aliases = b.aliases
         /\ Len(a.fields) = Len(b.fields)
         /\ FieldsSubEq(a.fields, b.fields, 1)
    ELSE IF a.tag = "Fixed"
    THEN fullname(a.name) = fullname(b.name) /\ a.size = b.size
    ELSE IF a.tag = "Enum"
    THEN /\ fullname(a.name) = fullname(b.name)
         /\ a.aliases = b.aliases
         /\ a.symbols = b.symbols
    ELSE IF a.tag = "Map" THEN VariantEq(a.values, b.values)
    ELSE IF a.tag = "Array" THEN VariantEq(a.items, b.items)
    ELSE IF a.tag = "Union"
    THEN Len(a.variants) = Len(b.variants) /\ VariantSeqEq(a.variants, b.variants, 1)
    ELSE a.fullname = b.fullname

VariantSeqEq(as, bs, i) ==
    IF i > Len(as) THEN TRUE
    ELSE VariantEq(as[i], bs[i]) /\ VariantSeqEq(as, bs, i + 1)

FieldsSubEq(as, bs, i) ==
    IF i > Len(as) THEN TRUE
    ELSE With(FieldIndex(bs, as[i].name), LAMBDA j :
         /\ j # 0
         /\ VariantEq(as[i].ty, bs[j].ty)
         /\ FieldsSubEq(as, bs, i + 1))

\* Vec<Variant>::contains
RECURSIVE VariantPositionFrom(_, _, _)
VariantPositionFrom(seq, a, i) ==
    IF i > Len(seq) THEN 0
    ELSE IF VariantEq(seq[i], a) THEN i ELSE VariantPositionFrom(seq, a, i + 1)

\* ------------------------------------------------------------------------
\* Variant::validate (schema/mod.rs): "Ok" or the name of the error
\* ------------------------------------------------------------------------

ValidatePrimitivePairs ==
    { <<"Null", "Null">>, <<"Boolean", "Boolean">>, <<"Int", "Int">>,
      <<"Long", "Long">>, <<"Long", "Float">>, <<"Long", "Double">>,
      <<"Int", "Long">>, <<"Int", "Float">>, <<"Int", "Double">>,
      <<"Float", "Float">>, <<"Float", "Double">>, <<"Double", "Double">>,
      <<"Str", "Str">>, <<"Str", "Bytes">>, <<"Bytes", "Str">>, <<"Bytes", "Bytes">> }

RECURSIVE validate(_, _, _), validate_record(_, _, _, _), validate_union(_, _, _, _)
validate(value, variant, cxt) ==
    LET vt == value.tag
        st == variant.tag IN
    IF <<vt, st>> \in ValidatePrimitivePairs THEN "Ok"
    ELSE IF vt \in {"Fixed", "Bytes"} /\ st = "Fixed"
    THEN IF Len(value.v) # variant.size THEN "FixedValueLenMismatch" ELSE "Ok"
    ELSE IF vt = "Record" /\ st = "Record"
    THEN validate_record(value.v.fields, variant.fields, cxt, 1)
    ELSE IF vt = "Map" /\ st = "Map"
    THEN IF value.v # <<>> THEN validate(value.v[1][2], variant.values, cxt) ELSE "EmptyMap"
    ELSE IF vt = "Enum" /\ st = "Enum" /\ Position(variant.symbols, value.v) # 0
    THEN "Ok"
    ELSE IF vt = "Array" /\ st = "Array"
    THEN IF value.v # <<>> THEN validate(value.v[1], variant.items, cxt) ELSE "EmptyArray"
    ELSE IF st = "Named"
    THEN IF variant.fullname \in DOMAIN cxt
            /\ validate(value, cxt[variant.fullname], cxt) = "Ok"
         THEN "Ok" ELSE "NamedSchemaNotFoundForValue"
    ELSE IF st = "Union"
    THEN validate_union(value, variant.variants, cxt, 1)
    ELSE "SchemaDataValidationFailed"

validate_record(vfields, sfields, cxt, i) ==
    IF i > Len(vfields) THEN "Ok"
    ELSE With(FieldIndex(sfields, vfields[i][1]), LAMBDA j :
         IF j = 0 THEN "RecordFieldMissing"
         ELSE With(validate(vfields[i][2], sfields[j].ty, cxt), LAMBDA r :
              IF r # "Ok" THEN r ELSE validate_record(vfields, sfields, cxt, i + 1)))

validate_union(value, variants, cxt, i) ==
    IF i > Len(variants) THEN "NotFoundInUnion"
    ELSE IF validate(value, variants[i], cxt) = "Ok" THEN "Ok"
    ELSE validate_union(value, variants, cxt, i + 1)

\* ------------------------------------------------------------------------
\* Value::encode and resolve_union (value.rs).  The result carries the bytes
\* that reached the writer, also when the call fails part-way.
\* ------------------------------------------------------------------------

EncOk(bs) == [ok |-> TRUE, out |-> bs, err |-> ""]
EncErr(bs, e) == [ok |-> FALSE, out |-> bs, err |-> e]

UnionSameTag ==
    { "Null", "Boolean", "Int", "Long", "Float", "Double", "Bytes", "Str",
      "Map", "Array", "Fixed", "Enum", "Record" }

\* Result: ok, the 0-based branch index, the branch (a Named branch resolved
\* through the registry), the error
RECURSIVE resolve_union_from(_, _, _, _)
resolve_union_from(value, union_variants, cxt, i) ==
    IF i > Len(union_variants)
    THEN [ok |-> FALSE, idx |-> 0, schema |-> SNull, err |-> "SchemaNotFoundInUnion"]
    ELSE LET variant == union_variants[i]
             vt == value.tag
             st == variant.tag IN
         IF vt = st /\ vt \in UnionSameTag
         THEN [ok |-> TRUE, idx |-> i - 1, schema |-> variant, err |-> ""]
         ELSE IF vt = "Array" /\ st = "Fixed"
         THEN IF Len(value.v) = variant.size
              THEN [ok |-> TRUE, idx |-> i - 1, schema |-> variant, err |-> ""]
              ELSE [ok |-> FALSE, idx |-> 0, schema |-> SNull, err |-> "FixedValueLenMismatch"]
         ELSE IF vt = "Union"
         THEN [ok |-> FALSE, idx |-> 0, schema |-> SNull, err |-> "NoImmediateUnion"]
         ELSE IF vt \in {"Record", "Enum", "Fixed"} /\ st = "Named"
         THEN IF variant.fullname \in DOMAIN cxt
              THEN [ok |-> TRUE, idx |-> i - 1, schema |-> cxt[variant.fullname], err |-> ""]
              ELSE [ok |-> FALSE, idx |-> 0, schema |-> SNull, err |-> "SchemaNotFoundInUnion"]
         ELSE resolve_union_from(value, union_variants, cxt, i + 1)

resolve_union(value, union_variants, cxt) == resolve_union_from(value, union_variants, cxt, 1)

\* The bytes of the Value::Byte items of an array (the serde Vec<u8> case)
RECURSIVE ByteItems(_)
ByteItems(values) ==
    IF values = <<>> THEN <<>>
    ELSE (IF Head(values).tag = "Byte" THEN <<Head(values).v>> ELSE <<>>)
         \o ByteItems(Tail(values))

RECURSIVE encode(_, _, _), encode_record(_, _, _, _, _), encode_map(_, _, _, _, _),
          encode_array(_, _, _, _, _)
encode(value, schema, cxt) ==
    LET vt == value.tag
        st == schema.tag
        lenPrefixed == encode_long(Len(value.v)) \o encode_raw_bytes(value.v) IN
    IF vt = "Null" /\ st = "Null" THEN EncOk(<<>>)
    ELSE IF vt = "Boolean" /\ st = "Boolean" THEN EncOk(<<IF value.v THEN 1 ELSE 0>>)
    ELSE IF vt = "Int" /\ st \in {"Int", "Long"} THEN EncOk(write_varint(value.v))
    ELSE IF vt = "Int" /\ st = "Float" THEN EncOk(write_f32(IntAsF32(value.v)))
    ELSE IF vt = "Int" /\ st = "Double" THEN EncOk(write_f64(IntAsF64(value.v)))
    ELSE IF vt = "Long" /\ st = "Long" THEN EncOk(write_varint(value.v))
    ELSE IF vt = "Long" /\ st = "Float" THEN EncOk(write_f32(IntAsF32(value.v)))
    ELSE IF vt = "Long" /\ st = "Double" THEN EncOk(write_f64(IntAsF64(value.v)))
    ELSE IF vt = "Float" /\ st = "Float" THEN EncOk(write_f32(value.v))
    ELSE IF vt = "Float" /\ st = "Double" THEN EncOk(write_f64(F32AsF64(value.v)))
    ELSE IF vt = "Double" /\ st = "Double" THEN EncOk(write_f64(value.v))
    ELSE IF st = "Named"
    THEN IF schema.fullname \in DOMAIN cxt
         THEN encode(value, cxt[schema.fullname], cxt)
         ELSE EncOk(<<>>)
    ELSE IF st = "Union"
    THEN With(resolve_union(value, schema.variants, cxt), LAMBDA r :
         IF ~r.ok THEN EncErr(<<>>, r.err)
         ELSE With(encode(value, r.schema, cxt), LAMBDA e :
              [e EXCEPT !.out = write_varint(r.idx) \o e.out]))
    ELSE IF vt = "Record" /\ st = "Record"
    THEN encode_record(value.v.fields, schema.fields, cxt, 1, <<>>)
    ELSE IF vt = "Map" /\ st = "Map"
    THEN encode_map(value.v, schema.values, cxt, 1, encode_long(Len(value.v)))
    ELSE IF vt = "Fixed" /\ st = "Fixed" THEN EncOk(value.v)
    ELSE IF vt \in {"Str", "Bytes"} /\ st \in {"Str", "Bytes"} THEN EncOk(lenPrefixed)
    ELSE IF vt = "Bytes" /\ st = "Fixed" THEN EncOk(encode_raw_bytes(value.v))
    ELSE IF vt = "Enum" /\ st = "Enum"
    THEN With(Position(schema.symbols, value.v), LAMBDA idx :
         IF idx # 0 THEN EncOk(write_varint(idx - 1))
         ELSE EncErr(<<>>, "SchemaDataMismatch"))
    ELSE IF vt = "Array" /\ st = "Array"
    THEN encode_array(value.v, schema.items, cxt, 1, write_varint(Len(value.v)))
    ELSE IF vt = "Array" /\ st = "Bytes"
    THEN EncOk(encode_long(Len(value.v)) \o encode_raw_bytes(ByteItems(value.v)))
    ELSE EncErr(<<>>, "SchemaDataMismatch")

\* for (f_name, f_value) in &record.fields: the loop runs over the fields of
\* the value, in the value's insertion order
encode_record(vfields, sfields, cxt, i, acc) ==
    IF i > Len(vfields) THEN EncOk(acc)
    ELSE With(FieldIndex(sfields, vfields[i][1]), LAMBDA j :
         IF j = 0 THEN encode_record(vfields, sfields, cxt, i + 1, acc)
         ELSE With(encode(vfields[i][2], sfields[j].ty, cxt), LAMBDA e :
              IF ~e.ok THEN EncErr(acc \o e.out, e.err)
              ELSE encode_record(vfields, sfields, cxt, i + 1, acc \o e.out)))

encode_map(entries, values, cxt, i, acc) ==
    IF i > Len(entries) THEN EncOk(acc \o encode_long(0))
    ELSE With(encode_long(Len(entries[i][1])) \o encode_raw_bytes(entries[i][1]), LAMBDA key : With(encode(entries[i][2], values, cxt), LAMBDA e :
         IF ~e.ok THEN EncErr(acc \o key \o e.out, e.err)
         ELSE encode_map(entries, values, cxt, i + 1, acc \o key \o e.out)))

encode_array(values, items_schema, cxt, i, acc) ==
    IF i > Len(values) THEN EncOk(acc \o write_varint(0))
    ELSE With(encode(values[i], items_schema, cxt), LAMBDA e :
         IF ~e.ok THEN EncErr(acc \o e.out, e.err)
         ELSE encode_array(values, items_schema, cxt, i + 1, acc \o e.out))

\* ------------------------------------------------------------------------
\* decode (reader.rs): decoding under the writer schema alone.
\* Result: ok, the value, the cursor position reached, the error.  A Rust
\* panic (index out of bounds, capacity overflow) is the error "panic".
\* ------------------------------------------------------------------------

DecOk(v, pos) == [ok |-> TRUE, val |-> v, pos |-> pos, err |-> ""]
DecErr(pos, e) == [ok |-> FALSE, val |-> VNull, pos |-> pos, err |-> e]

decode_boolean(buf, pos) ==
    With(read_exact(buf, pos, 1), LAMBDA r :
    IF ~r.ok THEN DecErr(r.pos, "DecodeFailed")
    ELSE IF r.val[1] = 0 THEN DecOk(VBoolean(FALSE), r.pos)
    ELSE IF r.val[1] = 1 THEN DecOk(VBoolean(TRUE), r.pos)
    ELSE DecErr(r.pos, "DecodeFailed"))

\* decode_bytes followed by str::from_utf8 (also util::decode_string)
decode_string(buf, pos) ==
    With(decode_bytes(buf, pos), LAMBDA r :
    IF ~r.ok THEN DecErr(r.pos, r.err)
    ELSE IF from_utf8_ok(r.val) THEN DecOk(VStr(r.val), r.pos)
    ELSE DecErr(r.pos, "DecodeFailed"))

RECURSIVE decode(_, _, _, _), decode_items(_, _, _, _, _, _), decode_entries(_, _, _, _, _, _),
          decode_fields(_, _, _, _, _, _)
decode(schema, buf, pos, r_cxt) ==
    LET st == schema.tag IN
    IF st = "Null" THEN DecOk(VNull, pos)
    ELSE IF st = "Boolean" THEN decode_boolean(buf, pos)
    ELSE IF st \in {"Int", "Long"}
    THEN With(read_varint(buf, pos), LAMBDA r :
         IF ~r.ok THEN DecErr(r.pos, "DecodeFailed")
         ELSE DecOk(IF st = "Int" THEN VInt(r.val) ELSE VLong(r.val), r.pos))
    ELSE IF st = "Double"
    THEN With(read_exact(buf, pos, 8), LAMBDA r :
         IF ~r.ok THEN DecErr(r.pos, "DecodeFailed")
         ELSE DecOk(VDouble(f64_from_le(r.val)), r.pos))
    ELSE IF st = "Float"
    THEN With(read_exact(buf, pos, 4), LAMBDA r :
         IF ~r.ok THEN DecErr(r.pos, "DecodeFailed")
         ELSE DecOk(VFloat(f32_from_le(r.val)), r.pos))
    ELSE IF st = "Str" THEN decode_string(buf, pos)
    ELSE IF st = "Array"
    THEN With(read_varint(buf, pos), LAMBDA c :
         IF ~c.ok THEN DecErr(c.pos, "DecodeFailed")
         ELSE IF c.val = 0 THEN DecOk(VArray(<<>>), c.pos)
         ELSE IF c.val < 0 THEN DecErr(c.pos, "panic")
         ELSE decode_items(schema.items, buf, c.pos, r_cxt, c.val, <<>>))
    ELSE IF st = "Bytes"
    THEN With(decode_bytes(buf, pos), LAMBDA r :
         IF ~r.ok THEN DecErr(r.pos, r.err) ELSE DecOk(VBytes(r.val), r.pos))
    ELSE IF st = "Map"
    THEN With(read_varint_usize(buf, pos), LAMBDA c :
         IF ~c.ok THEN DecErr(c.pos, "DecodeFailed")
         ELSE decode_entries(schema.values, buf, c.pos, r_cxt, c.val, <<>>))
    ELSE IF st = "Record"
    THEN With(decode_fields(schema.fields, buf, pos, r_cxt, 1, <<>>), LAMBDA r :
         IF ~r.ok THEN r
         ELSE DecOk(VRecord(fullname(schema.name), r.val), r.pos))
    ELSE IF st = "Union"
    THEN With(read_varint(buf, pos), LAMBDA i :
         IF ~i.ok THEN DecErr(i.pos, "DecodeFailed")
         ELSE IF i.val < 0 \/ i.val >= Len(schema.variants) THEN DecErr(i.pos, "panic")
         ELSE decode(schema.variants[i.val + 1], buf, i.pos, r_cxt))
    ELSE IF st = "Named"
    THEN IF schema.fullname \in DOMAIN r_cxt
         THEN decode(r_cxt[schema.fullname], buf, pos, r_cxt)
         ELSE DecErr(pos, "NamedSchemaNotFound")
    ELSE DecErr(pos, "DecodeFailed")

\* for _ in 0..block_count { it.push(decode(items)?) }
decode_items(items, buf, pos, r_cxt, n, acc) ==
    IF n = 0 THEN DecOk(VArray(acc), pos)
    ELSE With(decode(items, buf, pos, r_cxt), LAMBDA r :
         IF ~r.ok THEN r
         ELSE decode_items(items, buf, r.pos, r_cxt, n - 1, Append(acc, r.val)))

\* for _ in 0..block_count { hm.insert(decode_string()?, decode(values)?) }
decode_entries(values, buf, pos, r_cxt, n, acc) ==
    IF n = 0 THEN DecOk(VMap(acc), pos)
    ELSE With(decode_string(buf, pos), LAMBDA k :
         IF ~k.ok THEN k
         ELSE With(decode(values, buf, k.pos, r_cxt), LAMBDA r :
              IF ~r.ok THEN r
              ELSE decode_entries(values, buf, r.pos, r_cxt, n - 1,
                                  IndexMapInsert(acc, k.val.v, r.val))))

\* for (field_name, field) in fields { v.insert(field_name, decode(field.ty)?) }
\* The result's val is the list of (name, value) pairs.
decode_fields(fields, buf, pos, r_cxt, i, acc) ==
    IF i > Len(fields) THEN [ok |-> TRUE, val |-> acc, pos |-> pos, err |-> ""]
    ELSE With(decode(fields[i].ty, buf, pos, r_cxt), LAMBDA r :
         IF ~r.ok THEN r
         ELSE decode_fields(fields, buf, r.pos, r_cxt, i + 1,
                            IndexMapInsert(acc, fields[i].name, r.val)))

\* ------------------------------------------------------------------------
\* decode_with_resolution (reader.rs): decoding writer bytes under a reader
\* schema.  The arms are tried in the order of the Rust match on
\* (w_schema, r_schema).
\* ------------------------------------------------------------------------

\* for i in reader_variants { if i == writer_schema { return decode(i, ..) } }
decode_first_equal(reader_variants, writer_schema, buf, pos, r_cxt, failure) ==
    With(VariantPositionFrom(reader_variants, writer_schema, 1), LAMBDA j :
    IF j # 0 THEN decode(reader_variants[j], buf, pos, r_cxt)
    ELSE DecErr(pos, failure))

RECURSIVE decode_with_resolution(_, _, _, _, _, _), resolve_items(_, _, _, _, _, _, _, _),
          resolve_fields(_, _, _, _, _, _, _, _)
decode_with_resolution(r_schema, w_schema, r_cxt, w_cxt, buf, pos) ==
    LET wt == w_schema.tag
        rt == r_schema.tag IN
    IF wt = "Null" /\ rt = "Null" THEN DecOk(VNull, pos)
    ELSE IF wt = "Boolean" /\ rt = "Boolean" THEN decode_boolean(buf, pos)
    ELSE IF (wt = "Int" /\ rt \in {"Int", "Long", "Float", "Double"})
            \/ (wt = "Long" /\ rt \in {"Long", "Float", "Double"})
    THEN With(read_varint(buf, pos), LAMBDA r :
         IF ~r.ok THEN DecErr(r.pos, "DecodeFailed")
         ELSE DecOk(CASE rt = "Int" -> VInt(r.val)
                      [] rt = "Long" -> VLong(r.val)
                      [] rt = "Float" -> VFloat(IntAsF32(r.val))
                      [] rt = "Double" -> VDouble(IntAsF64(r.val)), r.pos))
    ELSE IF wt = "Float" /\ rt \in {"Float", "Double"}
    THEN With(read_exact(buf, pos, 4), LAMBDA r :
         IF ~r.ok THEN DecErr(r.pos, "DecodeFailed")
         ELSE DecOk(IF rt = "Float" THEN VFloat(f32_from_le(r.val))
                    ELSE VDouble(F32AsF64(f32_from_le(r.val))), r.pos))
    ELSE IF wt = "Double" /\ rt = "Double"
    THEN With(read_exact(buf, pos, 8), LAMBDA r :
         IF ~r.ok THEN DecErr(r.pos, "DecodeFailed")
         ELSE DecOk(VDouble(f64_from_le(r.val)), r.pos))
    ELSE IF wt \in {"Bytes", "Str"} /\ rt = "Bytes"
    THEN With(decode_bytes(buf, pos), LAMBDA r :
         IF ~r.ok THEN DecErr(r.pos, r.err) ELSE DecOk(VBytes(r.val), r.pos))
    ELSE IF wt \in {"Bytes", "Str"} /\ rt = "Str" THEN decode_string(buf, pos)
    ELSE IF wt = "Array" /\ rt = "Array"
    THEN IF VariantEq(w_schema.items, r_schema.items)
         THEN With(read_varint(buf, pos), LAMBDA c :
              IF ~c.ok THEN DecErr(c.pos, "DecodeFailed")
              ELSE IF c.val < 0 THEN DecErr(c.pos, "panic")
              ELSE resolve_items(r_schema.items, w_schema.items, r_cxt, w_cxt,
                                 buf, c.pos, c.val, <<>>))
         ELSE DecErr(pos, "ArrayItemsMismatch")
    ELSE IF wt = "Record" /\ rt = "Record"
    THEN IF fullname(w_schema.name) # fullname(r_schema.name)
         THEN DecErr(pos, "RecordNameMismatch")
         ELSE With(resolve_fields(r_schema.fields, w_schema.fields, r_cxt, w_cxt,
                                      buf, pos, 1, <<>>), LAMBDA r :
              IF ~r.ok THEN r
              ELSE DecOk(VRecord(fullname(r_schema.name), r.val), r.pos))
    ELSE IF wt = "Enum" /\ rt = "Enum"
    THEN IF fullname(w_schema.name) # fullname(r_schema.name)
         THEN DecErr(pos, "EnumNameMismatch")
         ELSE With(read_varint(buf, pos), LAMBDA i :
              IF ~i.ok THEN DecErr(i.pos, "DecodeFailed")
              ELSE IF i.val < 0 \/ i.val >= Len(w_schema.symbols)
              THEN DecErr(i.pos, "InvalidEnumSymbolIdx")
              ELSE IF i.val < Len(r_schema.symbols)
              THEN DecOk(VEnum(r_schema.symbols[i.val + 1]), i.pos)
              ELSE DecErr(i.pos, "EnumSymbolNotFound"))
    ELSE IF wt = "Fixed" /\ rt = "Fixed"
    THEN IF fullname(w_schema.name) # fullname(r_schema.name)
            /\ w_schema.size # r_schema.size
         THEN DecErr(pos, "FixedSchemaNameMismatch")
         ELSE With(read_exact(buf, pos, r_schema.size), LAMBDA r :
              IF ~r.ok THEN DecErr(r.pos, "DecodeFailed")
              ELSE DecOk(VFixed(r.val), r.pos))
    ELSE IF wt = "Map" /\ rt = "Map"
    THEN IF VariantEq(w_schema.values, r_schema.values)
         THEN With(read_varint(buf, pos), LAMBDA c :
              IF ~c.ok THEN DecErr(c.pos, "DecodeFailed")
              ELSE decode_entries(r_schema.values, buf, c.pos, r_cxt,
                                  IF c.val < 0 THEN 0 ELSE c.val, <<>>))
         ELSE DecErr(pos, "MapSchemaMismatch")
    ELSE IF wt = "Union" /\ rt = "Union"
    THEN With(read_varint(buf, pos), LAMBDA i :
         IF ~i.ok THEN DecErr(i.pos, "DecodeFailed")
         ELSE IF i.val >= 0 /\ i.val < Len(w_schema.variants)
         THEN decode_first_equal(r_schema.variants, w_schema.variants[i.val + 1],
                                 buf, i.pos, r_cxt, "UnionSchemaMismatch")
         ELSE DecErr(i.pos, "UnionSchemaMismatch"))
    ELSE IF rt = "Union"
    THEN decode_first_equal(r_schema.variants, w_schema, buf, pos, r_cxt, "WriterNotInReader")
    ELSE IF wt = "Union"
    THEN With(read_varint(buf, pos), LAMBDA i :
         IF ~i.ok THEN DecErr(i.pos, "DecodeFailed")
         ELSE IF /\ i.val >= 0 /\ i.val < Len(w_schema.variants)
                 /\ VariantEq(w_schema.variants[i.val + 1], r_schema)
         THEN decode(r_schema, buf, i.pos, r_cxt)
         ELSE DecErr(i.pos, "SchemaResolutionFailed"))
    ELSE DecErr(pos, "SchemaResolutionFailed")

\* for _ in 0..block_count { v.push(decode_with_resolution(r_items, w_items)?) }
resolve_items(r_items, w_items, r_cxt, w_cxt, buf, pos, n, acc) ==
    IF n = 0 THEN DecOk(VArray(acc), pos)
    ELSE With(decode_with_resolution(r_items, w_items, r_cxt, w_cxt, buf, pos), LAMBDA r :
         IF ~r.ok THEN r
         ELSE resolve_items(r_items, w_items, r_cxt, w_cxt, buf, r.pos, n - 1,
                            Append(acc, r.val)))

\* for f in reader_fields: the writer's field of the same name is resolved
\* and read at the cursor, a field the writer lacks takes the reader's
\* default, and nothing is read for a field only the writer has
resolve_fields(reader_fields, writer_fields, r_cxt, w_cxt, buf, pos, i, acc) ==
    IF i > Len(reader_fields) THEN [ok |-> TRUE, val |-> acc, pos |-> pos, err |-> ""]
    ELSE With(reader_fields[i], LAMBDA f : With(FieldIndex(writer_fields, f.name), LAMBDA j :
         IF j # 0
         THEN With(decode_with_resolution(f.ty, writer_fields[j].ty, r_cxt, w_cxt,
                                              buf, pos), LAMBDA r :
              IF ~r.ok THEN r
              ELSE resolve_fields(reader_fields, writer_fields, r_cxt, w_cxt, buf, r.pos,
                                  i + 1, IndexMapInsert(acc, f.name, r.val)))
         ELSE IF f.default # None
         THEN resolve_fields(reader_fields, writer_fields, r_cxt, w_cxt, buf, pos,
                             i + 1, IndexMapInsert(acc, f.name, f.default[1]))
         ELSE DecErr(pos, "FieldNotFound")))

\* ------------------------------------------------------------------------
\* Schemas.  A Schema (schema/mod.rs) holds the parsed variant, the registry
\* and the JSON text that Schema::as_bytes writes into the file header.
\* ------------------------------------------------------------------------

EmptyRegistry == <<>>

MkSchema(variant, cxt, text) == [variant |-> variant, cxt |-> cxt, text |-> text]

\* {"type":"null"}
SchemaNull == MkSchema(SNull, EmptyRegistry,
    <<123, 34, 116, 121, 112, 101, 34, 58, 34, 110, 117, 108, 108, 34, 125>>)

\* {"type":"boolean"}
SchemaBoolean == MkSchema(SBoolean, EmptyRegistry,
    <<123, 34, 116, 121, 112, 101, 34, 58, 34, 98, 111, 111, 108, 101, 97, 110, 34, 125>>)

\* {"type":"int"}
SchemaInt == MkSchema(SInt, EmptyRegistry,
    <<123, 34, 116, 121, 112, 101, 34, 58, 34, 105, 110, 116, 34, 125>>)

\* {"type":"long"}
SchemaLong == MkSchema(SLong, EmptyRegistry,
    <<123, 34, 116, 121, 112, 101, 34, 58, 34, 108, 111, 110, 103, 34, 125>>)

\* {"type":"float"}
SchemaFloat == MkSchema(SFloat, EmptyRegistry,
    <<123, 34, 116, 121, 112, 101, 34, 58, 34, 102, 108, 111, 97, 116, 34, 125>>)

\* {"type":"double"}
SchemaDouble == MkSchema(SDouble, EmptyRegistry,
    <<123, 34, 116, 121, 112, 101, 34, 58, 34, 100, 111, 117, 98, 108, 101, 34, 125>>)

\* {"type":"bytes"}
SchemaBytes == MkSchema(SBytes, EmptyRegistry,
    <<123, 34, 116, 121, 112, 101, 34, 58, 34, 98, 121, 116, 101, 115, 34, 125>>)

\* {"type":"string"}
SchemaStr == MkSchema(SStr, EmptyRegistry,
    <<123, 34, 116, 121, 112, 101, 34, 58, 34, 115, 116, 114, 105, 110, 103, 34, 125>>)

PrimitiveSchemas ==
    { SchemaNull, SchemaBoolean, SchemaInt, SchemaLong, SchemaFloat, SchemaDouble,
      SchemaBytes, SchemaStr }

\* The text of each schema is the JSON that Schema::as_bytes writes into the
\* header; the Reader finds the writer schema again by this text.

\* {"type":"array","items":"string"}
SchemaArrayStr == MkSchema(SArray(SStr), EmptyRegistry,
    <<123, 34, 116, 121, 112, 101, 34, 58, 34, 97, 114, 114, 97, 121, 34, 44, 34, 105,
      116, 101, 109, 115, 34, 58, 34, 115, 116, 114, 105, 110, 103, 34, 125>>)

RecABC == SRecord(MkName("Rec"),
    <<MkField("a", SLong, None),
      MkField("b", SLong, None),
      MkField("c", SLong, None)>>)

\* {"type":"record","name":"Rec","fields":[{"name":"a","type":"long"},{"name":"b"," ...
SchemaRecABC == MkSchema(RecABC, ("Rec" :> RecABC),
    <<123, 34, 116, 121, 112, 101, 34, 58, 34, 114, 101, 99, 111, 114, 100, 34, 44, 34,
      110, 97, 109, 101, 34, 58, 34, 82, 101, 99, 34, 44, 34, 102, 105, 101, 108, 100,
      115, 34, 58, 91, 123, 34, 110, 97, 109, 101, 34, 58, 34, 97, 34, 44, 34, 116,
      121, 112, 101, 34, 58, 34, 108, 111, 110, 103, 34, 125, 44, 123, 34, 110, 97,
      109, 101, 34, 58, 34, 98, 34, 44, 34, 116, 121, 112, 101, 34, 58, 34, 108, 111,
      110, 103, 34, 125, 44, 123, 34, 110, 97, 109, 101, 34, 58, 34, 99, 34, 44, 34,
      116, 121, 112, 101, 34, 58, 34, 108, 111, 110, 103, 34, 125, 93, 125>>)

RecAB == SRecord(MkName("Rec"), <<MkField("a", SLong, None), MkField("b", SLong, None)>>)

\* {"type":"record","name":"Rec","fields":[{"name":"a","type":"long"},{"name":"b"," ...
SchemaRecAB == MkSchema(RecAB, ("Rec" :> RecAB),
    <<123, 34, 116, 121, 112, 101, 34, 58, 34, 114, 101, 99, 111, 114, 100, 34, 44, 34,
      110, 97, 109, 101, 34, 58, 34, 82, 101, 99, 34, 44, 34, 102, 105, 101, 108, 100,
      115, 34, 58, 91, 123, 34, 110, 97, 109, 101, 34, 58, 34, 97, 34, 44, 34, 116,
      121, 112, 101, 34, 58, 34, 108, 111, 110, 103, 34, 125, 44, 123, 34, 110, 97,
      109, 101, 34, 58, 34, 98, 34, 44, 34, 116, 121, 112, 101, 34, 58, 34, 108, 111,
      110, 103, 34, 125, 93, 125>>)

RecBA == SRecord(MkName("Rec"), <<MkField("b", SLong, None), MkField("a", SLong, None)>>)

\* {"type":"record","name":"Rec","fields":[{"name":"b","type":"long"},{"name":"a"," ...
SchemaRecBA == MkSchema(RecBA, ("Rec" :> RecBA),
    <<123, 34, 116, 121, 112, 101, 34, 58, 34, 114, 101, 99, 111, 114, 100, 34, 44, 34,
      110, 97, 109, 101, 34, 58, 34, 82, 101, 99, 34, 44, 34, 102, 105, 101, 108, 100,
      115, 34, 58, 91, 123, 34, 110, 97, 109, 101, 34, 58, 34, 98, 34, 44, 34, 116,
      121, 112, 101, 34, 58, 34, 108, 111, 110, 103, 34, 125, 44, 123, 34, 110, 97,
      109, 101, 34, 58, 34, 97, 34, 44, 34, 116, 121, 112, 101, 34, 58, 34, 108, 111,
      110, 103, 34, 125, 93, 125>>)

RecCA == SRecord(MkName("Rec"), <<MkField("c", SLong, None), MkField("a", SLong, None)>>)

\* {"type":"record","name":"Rec","fields":[{"name":"c","type":"long"},{"name":"a"," ...
SchemaRecCA == MkSchema(RecCA, ("Rec" :> RecCA),
    <<123, 34, 116, 121, 112, 101, 34, 58, 34, 114, 101, 99, 111, 114, 100, 34, 44, 34,
      110, 97, 109, 101, 34, 58, 34, 82, 101, 99, 34, 44, 34, 102, 105, 101, 108, 100,
      115, 34, 58, 91, 123, 34, 110, 97, 109, 101, 34, 58, 34, 99, 34, 44, 34, 116,
      121, 112, 101, 34, 58, 34, 108, 111, 110, 103, 34, 125, 44, 123, 34, 110, 97,
      109, 101, 34, 58, 34, 97, 34, 44, 34, 116, 121, 112, 101, 34, 58, 34, 108, 111,
      110, 103, 34, 125, 93, 125>>)

\* The recursive LongList record of the tests, and the same record with the
\* extra field `other` (default 1)
LongListNext == MkField("next", SUnion(<<SNull, SNamed("LongList")>>), None)

LongList ==
    [SRecord(MkName("LongList"), <<MkField("value", SLong, None), LongListNext>>)
        EXCEPT !.aliases = Some(<<"LinkedLongs">>)]

LongListDefault ==
    [SRecord(MkName("LongList"),
             <<MkField("value", SLong, None), LongListNext,
               MkField("other", SLong, Some(VLong(1)))>>)
        EXCEPT !.aliases = Some(<<"LinkedLongs">>)]

\* the JSON of MockSchema.record()
SchemaLongList == MkSchema(LongList, ("LongList" :> LongList),
    <<123, 34, 116, 121, 112, 101, 34, 58, 34, 114, 101, 99, 111, 114, 100, 34, 44, 34,
      110, 97, 109, 101, 34, 58, 34, 76, 111, 110, 103, 76, 105, 115, 116, 34, 44, 34,
      97, 108, 105, 97, 115, 101, 115, 34, 58, 91, 34, 76, 105, 110, 107, 101, 100, 76,
      111, 110, 103, 115, 34, 93, 44, 34, 102, 105, 101, 108, 100, 115, 34, 58, 91,
      123, 34, 110, 97, 109, 101, 34, 58, 34, 118, 97, 108, 117, 101, 34, 44, 34, 116,
      121, 112, 101, 34, 58, 34, 108, 111, 110, 103, 34, 125, 44, 123, 34, 110, 97,
      109, 101, 34, 58, 34, 110, 101, 120, 116, 34, 44, 34, 116, 121, 112, 101, 34, 58,
      91, 34, 110, 117, 108, 108, 34, 44, 34, 76, 111, 110, 103, 76, 105, 115, 116, 34,
      93, 125, 93, 125>>)

\* the JSON of MockSchema.record_default()
SchemaLongListDefault == MkSchema(LongListDefault, ("LongList" :> LongListDefault),
    <<123, 34, 116, 121, 112, 101, 34, 58, 34, 114, 101, 99, 111, 114, 100, 34, 44, 34,
      110, 97, 109, 101, 34, 58, 34, 76, 111, 110, 103, 76, 105, 115, 116, 34, 44, 34,
      97, 108, 105, 97, 115, 101, 115, 34, 58, 91, 34, 76, 105, 110, 107, 101, 100, 76,
      111, 110, 103, 115, 34, 93, 44, 34, 102, 105, 101, 108, 100, 115, 34, 58, 91,
      123, 34, 110, 97, 109, 101, 34, 58, 34, 118, 97, 108, 117, 101, 34, 44, 34, 116,
      121, 112, 101, 34, 58, 34, 108, 111, 110, 103, 34, 125, 44, 123, 34, 110, 97,
      109, 101, 34, 58, 34, 110, 101, 120, 116, 34, 44, 34, 116, 121, 112, 101, 34, 58,
      91, 34, 110, 117, 108, 108, 34, 44, 34, 76, 111, 110, 103, 76, 105, 115, 116, 34,
      93, 125, 44, 123, 34, 110, 97, 109, 101, 34, 58, 34, 111, 116, 104, 101, 114, 34,
      44, 34, 116, 121, 112, 101, 34, 58, 34, 108, 111, 110, 103, 34, 44, 34, 100, 101,
      102, 97, 117, 108, 116, 34, 58, 49, 125, 93, 125>>)

FooABCD == SEnum(MkName("Foo"), <<"A", "B", "C", "D">>)

\* {"type":"enum","name":"Foo","symbols":["A","B","C","D"]}
SchemaFooABCD == MkSchema(FooABCD, ("Foo" :> FooABCD),
    <<123, 34, 116, 121, 112, 101, 34, 58, 34, 101, 110, 117, 109, 34, 44, 34, 110, 97,
      109, 101, 34, 58, 34, 70, 111, 111, 34, 44, 34, 115, 121, 109, 98, 111, 108, 115,
      34, 58, 91, 34, 65, 34, 44, 34, 66, 34, 44, 34, 67, 34, 44, 34, 68, 34, 93, 125>>)

FooF == SEnum(MkName("Foo"), <<"F">>)

\* {"type":"enum","name":"Foo","symbols":["F"]}
SchemaFooF == MkSchema(FooF, ("Foo" :> FooF),
    <<123, 34, 116, 121, 112, 101, 34, 58, 34, 101, 110, 117, 109, 34, 44, 34, 110, 97,
      109, 101, 34, 58, 34, 70, 111, 111, 34, 44, 34, 115, 121, 109, 98, 111, 108, 115,
      34, 58, 91, 34, 70, 34, 93, 125>>)

FooDCBA == SEnum(MkName("Foo"), <<"D", "C", "B", "A">>)

\* {"type":"enum","name":"Foo","symbols":["D","C","B","A"]}
SchemaFooDCBA == MkSchema(FooDCBA, ("Foo" :> FooDCBA),
    <<123, 34, 116, 121, 112, 101, 34, 58, 34, 101, 110, 117, 109, 34, 44, 34, 110, 97,
      109, 101, 34, 58, 34, 70, 111, 111, 34, 44, 34, 115, 121, 109, 98, 111, 108, 115,
      34, 58, 91, 34, 68, 34, 44, 34, 67, 34, 44, 34, 66, 34, 44, 34, 65, 34, 93, 125>>)

FooAB == SEnum(MkName("Foo"), <<"A", "B">>)

\* {"type":"enum","name":"Foo","symbols":["A","B"]}
SchemaFooAB == MkSchema(FooAB, ("Foo" :> FooAB),
    <<123, 34, 116, 121, 112, 101, 34, 58, 34, 101, 110, 117, 109, 34, 44, 34, 110, 97,
      109, 101, 34, 58, 34, 70, 111, 111, 34, 44, 34, 115, 121, 109, 98, 111, 108, 115,
      34, 58, 91, 34, 65, 34, 44, 34, 66, 34, 93, 125>>)

FixedF2 == SFixed(MkName("F"), 2)

\* {"type":"fixed","name":"F","size":2}
SchemaFixedF2 == MkSchema(FixedF2, ("F" :> FixedF2),
    <<123, 34, 116, 121, 112, 101, 34, 58, 34, 102, 105, 120, 101, 100, 34, 44, 34,
      110, 97, 109, 101, 34, 58, 34, 70, 34, 44, 34, 115, 105, 122, 101, 34, 58, 50, 125>>)

FixedG2 == SFixed(MkName("G"), 2)

\* {"type":"fixed","name":"G","size":2}
SchemaFixedG2 == MkSchema(FixedG2, ("G" :> FixedG2),
    <<123, 34, 116, 121, 112, 101, 34, 58, 34, 102, 105, 120, 101, 100, 34, 44, 34,
      110, 97, 109, 101, 34, 58, 34, 71, 34, 44, 34, 115, 105, 122, 101, 34, 58, 50, 125>>)

FixedF3 == SFixed(MkName("F"), 3)

\* {"type":"fixed","name":"F","size":3}
SchemaFixedF3 == MkSchema(FixedF3, ("F" :> FixedF3),
    <<123, 34, 116, 121, 112, 101, 34, 58, 34, 102, 105, 120, 101, 100, 34, 44, 34,
      110, 97, 109, 101, 34, 58, 34, 70, 34, 44, 34, 115, 105, 122, 101, 34, 58, 51, 125>>)

FixedG3 == SFixed(MkName("G"), 3)

\* {"type":"fixed","name":"G","size":3}
SchemaFixedG3 == MkSchema(FixedG3, ("G" :> FixedG3),
    <<123, 34, 116, 121, 112, 101, 34, 58, 34, 102, 105, 120, 101, 100, 34, 44, 34,
      110, 97, 109, 101, 34, 58, 34, 71, 34, 44, 34, 115, 105, 122, 101, 34, 58, 51, 125>>)

\* ["null","int"]
SchemaUnionNullInt == MkSchema(SUnion(<<SNull, SInt>>), EmptyRegistry,
    <<91, 34, 110, 117, 108, 108, 34, 44, 34, 105, 110, 116, 34, 93>>)

\* ["long","int"]
SchemaUnionLongInt == MkSchema(SUnion(<<SLong, SInt>>), EmptyRegistry,
    <<91, 34, 108, 111, 110, 103, 34, 44, 34, 105, 110, 116, 34, 93>>)


\* Two records in one union
RecA == SRecord(MkName("A"), <<MkField("x", SLong, None)>>)
RecB == SRecord(MkName("B"), <<MkField("y", SLong, None)>>)

\* [{"type":"record","name":"A","fields":[{"name":"x","type":"long"}]},
\*  {"type":"record","name":"B","fields":[{"name":"y","type":"long"}]}]
SchemaUnionAB == MkSchema(SUnion(<<RecA, RecB>>), ("A" :> RecA) @@ ("B" :> RecB),
    <<91, 123, 34, 116, 121, 112, 101, 34, 58, 34, 114, 101, 99, 111, 114, 100, 34, 44,
      34, 110, 97, 109, 101, 34, 58, 34, 65, 34, 44, 34, 102, 105, 101, 108, 100, 115, 34,
      58, 91, 123, 34, 110, 97, 109, 101, 34, 58, 34, 120, 34, 44, 34, 116, 121, 112, 101,
      34, 58, 34, 108, 111, 110, 103, 34, 125, 93, 125, 44, 123, 34, 116, 121, 112, 101,
      34, 58, 34, 114, 101, 99, 111, 114, 100, 34, 44, 34, 110, 97, 109, 101, 34, 58, 34,
      66, 34, 44, 34, 102, 105, 101, 108, 100, 115, 34, 58, 91, 123, 34, 110, 97, 109,
      101, 34, 58, 34, 121, 34, 44, 34, 116, 121, 112, 101, 34, 58, 34, 108, 111, 110,
      103, 34, 125, 93, 125, 93>>)

\* A record whose second field refers to the record of its first field by name
RecNamed == SRecord(MkName("R"),
    <<MkField("a", RecA, None),
      MkField("b", SNamed("A"), None)>>)

\* {"type":"record","name":"R","fields":[{"name":"a","type":{"type":"record",
\*  "name":"A","fields":[{"name":"x","type":"long"}]}},{"name":"b","type":"A"}]}
SchemaRecNamed == MkSchema(RecNamed, ("A" :> RecA) @@ ("R" :> RecNamed),
    <<123, 34, 116, 121, 112, 101, 34, 58, 34, 114, 101, 99, 111, 114, 100, 34, 44, 34,
      110, 97, 109, 101, 34, 58, 34, 82, 34, 44, 34, 102, 105, 101, 108, 100, 115, 34,
      58, 91, 123, 34, 110, 97, 109, 101, 34, 58, 34, 97, 34, 44, 34, 116, 121, 112,
      101, 34, 58, 123, 34, 116, 121, 112, 101, 34, 58, 34, 114, 101, 99, 111, 114,
      100, 34, 44, 34, 110, 97, 109, 101, 34, 58, 34, 65, 34, 44, 34, 102, 105, 101,
      108, 100, 115, 34, 58, 91, 123, 34, 110, 97, 109, 101, 34, 58, 34, 120, 34, 44,
      34, 116, 121, 112, 101, 34, 58, 34, 108, 111, 110, 103, 34, 125, 93, 125, 125,
      44, 123, 34, 110, 97, 109, 101, 34, 58, 34, 98, 34, 44, 34, 116, 121, 112, 101,
      34, 58, 34, 65, 34, 125, 93, 125>>)

\* {"type":"map","values":"long"}
SchemaMapLong == MkSchema(SMap(SLong), EmptyRegistry,
    <<123, 34, 116, 121, 112, 101, 34, 58, 34, 109, 97, 112, 34, 44, 34, 118, 97, 108,
      117, 101, 115, 34, 58, 34, 108, 111, 110, 103, 34, 125>>)

\* ------------------------------------------------------------------------
\* Names (schema/common.rs).  A TLA+ string cannot be taken apart, so the
\* names the model's schemas use are spelled out once, character by
\* character; names are validated and split on their characters.
\* ------------------------------------------------------------------------

Spelling ==
    [s \in {""} |-> <<>>]
    @@ ("a" :> <<"a">>) @@ ("b" :> <<"b">>) @@ ("x" :> <<"x">>) @@ ("y" :> <<"y">>)
    @@ ("A" :> <<"A">>) @@ ("B" :> <<"B">>) @@ ("F" :> <<"F">>) @@ ("R" :> <<"R">>)
    @@ ("_a" :> <<"_", "a">>) @@ ("a1" :> <<"a", "1">>) @@ ("1a" :> <<"1", "a">>)
    @@ ("a-b" :> <<"a", "-", "b">>) @@ ("a b" :> <<"a", " ", "b">>)
    @@ ("-" :> <<"-">>) @@ ("_" :> <<"_">>)
    @@ ("ns" :> <<"n", "s">>) @@ ("ns.F" :> <<"n", "s", ".", "F">>)
    @@ ("ns.R" :> <<"n", "s", ".", "R">>) @@ ("ns.1a" :> <<"n", "s", ".", "1", "a">>)
    @@ ("n.1s" :> <<"n", ".", "1", "s">>) @@ ("ns." :> <<"n", "s", ".">>)
    @@ ("null" :> <<"n", "u", "l", "l">>) @@ ("long" :> <<"l", "o", "n", "g">>)
    @@ ("int" :> <<"i", "n", "t">>) @@ ("map" :> <<"m", "a", "p">>)

\* s.chars()
Chars(s) == Spelling[s]

\* The string of a sequence of characters
RECURSIVE Str(_)
Str(cs) == IF cs = <<>> THEN "" ELSE Head(cs) \o Str(Tail(cs))

AsciiDigits == {"0", "1", "2", "3", "4", "5", "6", "7", "8", "9"}

AsciiLetters ==
    {"a", "b", "c", "d", "e", "f", "g", "h", "i", "j", "k", "l", "m", "n", "o", "p",
     "q", "r", "s", "t", "u", "v", "w", "x", "y", "z", "A", "B", "C", "D", "E", "F",
     "G", "H", "I", "J", "K", "L", "M", "N", "O", "P", "Q", "R", "S", "T", "U", "V",
     "W", "X", "Y", "Z"}

\* char::is_ascii_digit, char::is_ascii_alphanumeric
is_ascii_digit(c) == c \in AsciiDigits
is_ascii_alphanumeric(c) == c \in AsciiDigits \cup AsciiLetters

\* str::contains('.')
ContainsDot(cs) == \E i \in 1..Len(cs) : cs[i] = "."

\* str::rfind('.'), 1-based; 0 if there is no dot
RfindDot(cs) == IF ContainsDot(cs) THEN CHOOSE i \in 1..Len(cs) :
                     cs[i] = "." /\ \A j \in (i + 1)..Len(cs) : cs[j] # "."
                ELSE 0

\* str::split('.'): the pieces between the dots, empty pieces included
RECURSIVE SplitDots(_, _)
SplitDots(cs, piece) ==
    IF cs = <<>> THEN <<piece>>
    ELSE IF Head(cs) = "." THEN <<piece>> \o SplitDots(Tail(cs), <<>>)
    ELSE SplitDots(Tail(cs), Append(piece, Head(cs)))

\* common::validate_name on the characters of a name
validate_name(idx, name) ==
    IF \/ ContainsDot(name)
       \/ (name # <<>> /\ is_ascii_digit(name[1]) /\ idx = 0)
       \/ name = <<>>
       \/ ~\E i \in 1..Len(name) : is_ascii_alphanumeric(name[i]) \/ name[i] = "_"
    THEN "InvalidName"
    ELSE "Ok"

\* A validate_name that holds a name to the grammar [A-Za-z_][A-Za-z0-9_]*
validate_name_by_grammar(idx, name) ==
    IF \/ name = <<>>
       \/ (name # <<>> /\ is_ascii_digit(name[1]) /\ idx = 0)
       \/ \E i \in 1..Len(name) : ~(is_ascii_alphanumeric(name[i]) \/ name[i] = "_")
    THEN "InvalidName"
    ELSE "Ok"

\* common::validate_namespace
validate_namespace(s) ==
    IF \E i \in 1..Len(SplitDots(s, <<>>)) : validate_name(i - 1, SplitDots(s, <<>>)[i]) # "Ok"
    THEN "InvalidNamespace"
    ELSE "Ok"

NameOk(n) == [ok |-> TRUE, name |-> n, err |-> ""]
NameErr(e) == [ok |-> FALSE, name |-> MkName(""), err |-> e]

\* Name::new
name_new(name) ==
    With(Chars(name), LAMBDA cs :
    IF ContainsDot(cs)
    THEN IF validate_namespace(cs) # "Ok" THEN NameErr("InvalidNamespace")
         ELSE IF validate_name(0, SubSeq(cs, RfindDot(cs) + 1, Len(cs))) # "Ok"
         THEN NameErr("InvalidName")
         ELSE NameOk([name |-> Str(SubSeq(cs, RfindDot(cs) + 1, Len(cs))),
                      namespace |-> Some(Str(SubSeq(cs, 1, RfindDot(cs) - 1)))])
    ELSE IF validate_name(0, cs) # "Ok" THEN NameErr("InvalidName")
    ELSE NameOk(MkName(name)))

\* Name::set_namespace
set_namespace(n, namespace) ==
    IF namespace = "" THEN NameOk(n)
    ELSE IF validate_namespace(Chars(namespace)) # "Ok" THEN NameErr("InvalidNamespace")
    ELSE IF n.namespace = None THEN NameOk([n EXCEPT !.namespace = Some(namespace)])
    ELSE NameOk(n)

\* impl Display for Name
name_to_string(n) ==
    IF n.namespace = None THEN n.name ELSE n.namespace[1] \o "." \o n.name

\* ------------------------------------------------------------------------
\* Schema parsing (schema/parser.rs, schema/canonical.rs) over the JSON that
\* serde_json hands to it.  An object is a function from its keys to their
\* values.  The schemas of the model carry no "order", "aliases" or "doc".
\* ------------------------------------------------------------------------

JNull == [j |-> "Null"]
JBool(b) == [j |-> "Bool", b |-> b]
JStr(s) == [j |-> "String", s |-> s]
JNum(n) == [j |-> "Number", n |-> n]
JArr(a) == [j |-> "Array", a |-> a]
JObj(o) == [j |-> "Object", o |-> o]

\* Map::get(key) is Some(JsonValue::String(_))
HasStr(o, key) == key \in DOMAIN o /\ o[key].j = "String"

\* Name::from_json and Name::from_json_mut
name_from_json(json, enclosing_namespace) ==
    IF ~HasStr(json, "name") THEN NameErr("NameParseFailed")
    ELSE With(name_new(json["name"].s), LAMBDA n :
         IF ~n.ok \/ n.name.namespace # None THEN n
         ELSE IF "namespace" \in DOMAIN json
         THEN IF json["namespace"].j # "String" THEN n
              ELSE IF validate_namespace(Chars(json["namespace"].s)) # "Ok"
              THEN NameErr("InvalidNamespace")
              ELSE set_namespace(n.name, json["namespace"].s)
         ELSE IF enclosing_namespace # None
         THEN IF validate_namespace(Chars(enclosing_namespace[1])) # "Ok"
              THEN NameErr("InvalidNamespace")
              ELSE set_namespace(n.name, enclosing_namespace[1])
         ELSE n)

\* canonical::normalize_name: the error it returns, "Ok" if none
RECURSIVE normalize_name(_, _)
RECURSIVE normalize_fields(_, _, _)
normalize_name(json_map, enclosing_namespace) ==
    With(name_from_json(json_map, enclosing_namespace), LAMBDA name :
    IF ~name.ok THEN name.err
    ELSE IF "fields" \in DOMAIN json_map /\ json_map["fields"].j = "Array"
    THEN normalize_fields(json_map["fields"].a, name.name.namespace, 1)
    ELSE "Ok")

normalize_fields(fields, namespace, i) ==
    IF i > Len(fields) THEN "Ok"
    ELSE IF /\ fields[i].j = "Object"
            /\ "type" \in DOMAIN fields[i].o
            /\ fields[i].o["type"].j = "Object"
            /\ "name" \in DOMAIN fields[i].o["type"].o
    THEN With(normalize_name(fields[i].o["type"].o, namespace), LAMBDA r :
         IF r # "Ok" THEN r ELSE normalize_fields(fields, namespace, i + 1))
    ELSE normalize_fields(fields, namespace, i + 1)

NormalizedTypes == {"record", "enum", "array", "maps", "union", "fixed"}

\* canonical::normalize_schema: the error it returns, "Ok" if none
RECURSIVE normalize_schema(_)
RECURSIVE normalize_items(_, _)
normalize_schema(json_schema) ==
    IF json_schema.j = "Object"
    THEN IF HasStr(json_schema.o, "type") /\ json_schema.o["type"].s \notin NormalizedTypes
         THEN "Ok"
         ELSE IF "name" \in DOMAIN json_schema.o THEN normalize_name(json_schema.o, None)
         ELSE "Ok"
    ELSE IF json_schema.j = "String" THEN "Ok"
    ELSE IF json_schema.j = "Array" THEN normalize_items(json_schema.a, 1)
    ELSE "UnknownSchema"

normalize_items(v, i) ==
    IF i > Len(v) THEN "Ok"
    ELSE With(normalize_schema(v[i]), LAMBDA r :
         IF r # "Ok" THEN r ELSE normalize_items(v, i + 1))

\* A JSON object without key k
WithoutKey(o, k) == [x \in DOMAIN o \ {k} |-> o[x]]

\* What canonical::normalize_name leaves in json_map when it returns Ok: the
\* fullname for the name, no "namespace" that Name::from_json_mut has used,
\* and the named types of the fields normalized in the name's namespace
RECURSIVE normalized_name(_, _)
normalized_name(json_map, enclosing_namespace) ==
    With(name_from_json(json_map, enclosing_namespace).name, LAMBDA name :
    With(IF name_new(json_map["name"].s).name.namespace = None
            /\ HasStr(json_map, "namespace")
         THEN WithoutKey(json_map, "namespace") ELSE json_map, LAMBDA map :
    [k \in DOMAIN map |->
        IF k = "name" THEN JStr(fullname(name))
        ELSE IF k = "fields" /\ map[k].j = "Array"
        THEN JArr([i \in 1..Len(map[k].a) |->
                 With(map[k].a[i], LAMBDA f :
                 IF /\ f.j = "Object"
                    /\ "type" \in DOMAIN f.o
                    /\ f.o["type"].j = "Object"
                    /\ "name" \in DOMAIN f.o["type"].o
                 THEN JObj([x \in DOMAIN f.o |->
                          IF x = "type"
                          THEN JObj(normalized_name(f.o["type"].o, name.namespace))
                          ELSE f.o[x]])
                 ELSE f)])
        ELSE map[k]]))

RELEVANT_FIELDS == {"name", "type", "fields", "symbols", "items", "values", "size"}

\* canonical::order_fields: the relevant keys of an object, and of the
\* objects in it
RECURSIVE order_fields(_)
order_fields(json) ==
    [field \in DOMAIN json \cap RELEVANT_FIELDS |->
        IF json[field].j = "Object" THEN JObj(order_fields(json[field].o))
        ELSE IF json[field].j = "Array"
        THEN JArr([i \in 1..Len(json[field].a) |->
                 IF json[field].a[i].j = "Object"
                 THEN JObj(order_fields(json[field].a[i].o))
                 ELSE json[field].a[i]])
        ELSE json[field]]

\* canonical::normalize_strip
normalize_strip(schema) == WithoutKey(WithoutKey(schema, "doc"), "aliases")

\* The JSON that canonical::normalize_schema returns when it returns Ok: the
\* canonical form Schema::parse_imp keeps
normalized_schema(json_schema) ==
    IF json_schema.j = "Object"
    THEN IF HasStr(json_schema.o, "type") /\ json_schema.o["type"].s \notin NormalizedTypes
         THEN JStr(json_schema.o["type"].s)
         ELSE JObj(normalize_strip(order_fields(
                  IF "name" \in DOMAIN json_schema.o
                  THEN normalized_name(json_schema.o, None)
                  ELSE json_schema.o)))
    ELSE json_schema

\* Registry.cxt.insert
RegistryInsert(cxt, name, variant) == (name :> variant) @@ cxt

ParseOk(variant, cxt) == [ok |-> TRUE, variant |-> variant, cxt |-> cxt, err |-> ""]
ParseErr(e) == [ok |-> FALSE, variant |-> SNull, cxt |-> EmptyRegistry, err |-> e]

\* Registry::get_fullname
get_fullname(name, enclosing_namespace) ==
    IF enclosing_namespace # None THEN enclosing_namespace[1] \o "." \o name ELSE name

\* A get_fullname that leaves a name with a dot in it as it is
get_fullname_qualified(name, enclosing_namespace) ==
    IF enclosing_namespace # None /\ ~ContainsDot(Chars(name))
    THEN enclosing_namespace[1] \o "." \o name
    ELSE name

PrimitiveNames ==
    [null |-> SNull, boolean |-> SBoolean, int |-> SInt, long |-> SLong,
     double |-> SDouble, float |-> SFloat, bytes |-> SBytes, string |-> SStr]

\* Registry::parse_primitive
parse_primitive(schema, enclosing_namespace, cxt) ==
    IF schema \in DOMAIN PrimitiveNames THEN ParseOk(PrimitiveNames[schema], cxt)
    ELSE IF schema # ""
    THEN IF get_fullname(schema, enclosing_namespace) \in DOMAIN cxt
         THEN ParseOk(SNamed(get_fullname(schema, enclosing_namespace)), cxt)
         ELSE ParseErr("SchemaParseErr")
    ELSE ParseErr("InvalidPrimitiveSchema")

\* IndexMap::insert on the fields parsed so far: a new name is appended, a
\* name that is there keeps its place and gets the new field
FieldInsert(fields_parsed, field) ==
    IF FieldIndex(fields_parsed, field.name) = 0 THEN Append(fields_parsed, field)
    ELSE [fields_parsed EXCEPT ![FieldIndex(fields_parsed, field.name)] = field]

\* The enum symbols of a JSON array: their strings, or the error
RECURSIVE parse_symbols(_, _, _)
parse_symbols(sym, i, symbols) ==
    IF i > Len(sym) THEN [ok |-> TRUE, symbols |-> symbols, err |-> ""]
    ELSE IF sym[i].j # "String"
    THEN [ok |-> FALSE, symbols |-> <<>>, err |-> "EnumSymbolParseErr"]
    ELSE IF validate_name(0, Chars(sym[i].s)) # "Ok"
    THEN [ok |-> FALSE, symbols |-> <<>>, err |-> "InvalidName"]
    ELSE parse_symbols(sym, i + 1, Append(symbols, sym[i].s))

\* Variant::get_named_mut, and what parse_record_fields does with it: a named
\* type without a namespace gets the enclosing one
WithEnclosingNamespace(ty, enclosing_namespace) ==
    IF ty.tag \in {"Record", "Fixed", "Enum"} /\ ty.name.namespace = None
       /\ enclosing_namespace # None
    THEN With(set_namespace(ty.name, enclosing_namespace[1]), LAMBDA n :
         IF n.ok THEN [ok |-> TRUE, ty |-> [ty EXCEPT !.name = n.name], err |-> ""]
         ELSE [ok |-> FALSE, ty |-> ty, err |-> n.err])
    ELSE [ok |-> TRUE, ty |-> ty, err |-> ""]

RECURSIVE parse_schema(_, _, _)
RECURSIVE parse_union(_, _, _, _, _)
RECURSIVE parse_union_keeping_duplicates(_, _, _, _, _)
RECURSIVE parse_record_fields(_, _, _, _, _)
RECURSIVE parse_object(_, _, _)

\* A parse_union that pushes every branch it has parsed, whatever it is
parse_union_keeping_duplicates(schema, enclosing_namespace, cxt, i, union_schema) ==
    IF i > Len(schema) THEN ParseOk(SUnion(union_schema), cxt)
    ELSE With(parse_schema(schema[i], enclosing_namespace, cxt), LAMBDA parsed_schema :
         IF ~parsed_schema.ok THEN parsed_schema
         ELSE parse_union(schema, enclosing_namespace, parsed_schema.cxt, i + 1,
                          Append(union_schema, parsed_schema.variant)))

\* Registry::parse_union: the branches from the i-th on
parse_union(schema, enclosing_namespace, cxt, i, union_schema) ==
    IF i > Len(schema) THEN ParseOk(SUnion(union_schema), cxt)
    ELSE With(parse_schema(schema[i], enclosing_namespace, cxt), LAMBDA parsed_schema :
         IF ~parsed_schema.ok THEN parsed_schema
         ELSE IF parsed_schema.variant.tag = "Union" THEN ParseErr("DuplicateSchemaInUnion")
         ELSE IF VariantPositionFrom(union_schema, parsed_schema.variant, 1) # 0
         THEN ParseErr("DuplicateSchemaInUnion")
         ELSE parse_union(schema, enclosing_namespace, parsed_schema.cxt, i + 1,
                          Append(union_schema, parsed_schema.variant)))

\* The ASCII codes of the characters the inputs are spelled with
AsciiCode ==
    ("a" :> 97) @@ ("b" :> 98) @@ ("n" :> 110) @@ ("s" :> 115) @@ ("x" :> 120)
    @@ ("y" :> 121) @@ ("A" :> 65) @@ ("B" :> 66) @@ ("F" :> 70) @@ ("R" :> 82)
    @@ ("_" :> 95) @@ ("1" :> 49) @@ ("-" :> 45) @@ (" " :> 32) @@ ("." :> 46)
    @@ ("g" :> 103) @@ ("i" :> 105) @@ ("l" :> 108) @@ ("m" :> 109) @@ ("o" :> 111)
    @@ ("p" :> 112) @@ ("t" :> 116) @@ ("u" :> 117)

\* str::as_bytes
as_bytes(s) == [i \in 1..Len(Chars(s)) |-> AsciiCode[Chars(s)[i]]]

\* A parse_default that takes the last branch of a union for the default
last_variant_index(variants) == Len(variants)

\* variants.first().ok_or(AvrowErr::FailedDefaultUnion) in parse_default: the
\* place of the branch, 0 if there is none
first_variant_index(variants) == IF variants = <<>> THEN 0 ELSE 1

DefaultOk(value) == [ok |-> TRUE, value |-> value, err |-> ""]
DefaultErr(e) == [ok |-> FALSE, value |-> VNull, err |-> e]

\* parser::parse_default.  The entries of a JSON object are visited in the
\* order of its map; a JSON number is an integer here
RECURSIVE parse_default(_, _)
RECURSIVE parse_default_items(_, _, _, _)
RECURSIVE parse_default_fields(_, _, _, _)
RECURSIVE parse_default_entries(_, _, _, _)
parse_default(default_value, schema_variant) ==
    IF schema_variant.tag = "Union"
    THEN IF first_variant_index(schema_variant.variants) = 0
         THEN DefaultErr("FailedDefaultUnion")
         ELSE parse_default(default_value,
                  schema_variant.variants[first_variant_index(schema_variant.variants)])
    ELSE IF default_value.j = "Null" /\ schema_variant.tag = "Null" THEN DefaultOk(VNull)
    ELSE IF default_value.j = "Bool" /\ schema_variant.tag = "Boolean"
    THEN DefaultOk(VBoolean(default_value.b))
    ELSE IF default_value.j = "Number" /\ schema_variant.tag = "Int"
    THEN DefaultOk(VInt(default_value.n))
    ELSE IF default_value.j = "Number" /\ schema_variant.tag = "Long"
    THEN DefaultOk(VLong(default_value.n))
    ELSE IF default_value.j = "Number" /\ schema_variant.tag = "Float"
    THEN DefaultOk(VFloat(IntAsF32(default_value.n)))
    ELSE IF default_value.j = "Number" /\ schema_variant.tag = "Double"
    THEN DefaultOk(VDouble(IntAsF64(default_value.n)))
    ELSE IF default_value.j = "String" /\ schema_variant.tag = "Bytes"
    THEN DefaultOk(VBytes(as_bytes(default_value.s)))
    ELSE IF default_value.j = "String" /\ schema_variant.tag = "Str"
    THEN DefaultOk(VStr(as_bytes(default_value.s)))
    ELSE IF default_value.j = "Object" /\ schema_variant.tag = "Record"
    THEN parse_default_fields(default_value.o, DOMAIN default_value.o, schema_variant, <<>>)
    ELSE IF default_value.j = "String" /\ schema_variant.tag = "Enum"
    THEN IF Position(schema_variant.symbols, default_value.s) # 0
         THEN DefaultOk(VStr(as_bytes(default_value.s)))
         ELSE DefaultErr("EnumSymbolNotPresent")
    ELSE IF default_value.j = "Array" /\ schema_variant.tag = "Array"
    THEN parse_default_items(default_value.a, schema_variant.items, 1, <<>>)
    ELSE IF default_value.j = "Object" /\ schema_variant.tag = "Map"
    THEN parse_default_entries(default_value.o, DOMAIN default_value.o,
                               schema_variant.values, <<>>)
    ELSE IF default_value.j = "String" /\ schema_variant.tag = "Fixed"
    THEN DefaultOk(VFixed(as_bytes(default_value.s)))
    ELSE DefaultErr("DefaultValueParse")

\* The Array arm of parse_default: the items from the i-th on
parse_default_items(arr, items, i, default_arr_items) ==
    IF i > Len(arr) THEN DefaultOk(VArray(default_arr_items))
    ELSE With(parse_default(arr[i], items), LAMBDA parsed_default :
         IF ~parsed_default.ok THEN parsed_default
         ELSE parse_default_items(arr, items, i + 1,
                                  Append(default_arr_items, parsed_default.value)))

\* The Record arm of parse_default: the entries whose keys are still to visit
parse_default_fields(v, keys, record, values) ==
    IF keys = {} THEN DefaultOk(VRecord(name_to_string(record.name), values))
    ELSE With(CHOOSE k \in keys : TRUE, LAMBDA k :
         IF FieldIndex(record.fields, k) = 0 THEN DefaultErr("DefaultValueParse")
         ELSE With(parse_default(v[k], record.fields[FieldIndex(record.fields, k)].ty),
                   LAMBDA parsed_value :
              IF ~parsed_value.ok THEN parsed_value
              ELSE parse_default_fields(v, keys \ {k}, record,
                       IndexMapInsert(values, k, parsed_value.value))))

\* The Map arm of parse_default: the entries whose keys are still to visit
parse_default_entries(map, keys, values_schema, values) ==
    IF keys = {} THEN DefaultOk(VMap(values))
    ELSE With(CHOOSE k \in keys : TRUE, LAMBDA k :
         With(parse_default(map[k], values_schema), LAMBDA parsed_value :
         IF ~parsed_value.ok THEN parsed_value
         ELSE parse_default_entries(map, keys \ {k}, values_schema,
                  IndexMapInsert(values, as_bytes(k), parsed_value.value))))

\* Registry::parse_record_fields: the fields from the i-th on
parse_record_fields(fields, enclosing_namespace, cxt, i, fields_parsed) ==
    IF i > Len(fields) THEN [ok |-> TRUE, fields |-> fields_parsed, cxt |-> cxt, err |-> ""]
    ELSE IF fields[i].j # "Object"
    THEN [ok |-> FALSE, fields |-> <<>>, cxt |-> cxt, err |-> "InvalidRecordFieldType"]
    ELSE IF ~HasStr(fields[i].o, "name")
    THEN [ok |-> FALSE, fields |-> <<>>, cxt |-> cxt, err |-> "RecordNameNotFound"]
    ELSE IF "type" \notin DOMAIN fields[i].o
    THEN [ok |-> FALSE, fields |-> <<>>, cxt |-> cxt, err |-> "RecordTypeNotFound"]
    ELSE With(parse_schema(fields[i].o["type"], enclosing_namespace, cxt), LAMBDA parsed :
         IF ~parsed.ok THEN [ok |-> FALSE, fields |-> <<>>, cxt |-> cxt, err |-> parsed.err]
         ELSE With(WithEnclosingNamespace(parsed.variant, enclosing_namespace), LAMBDA ty :
              IF ~ty.ok THEN [ok |-> FALSE, fields |-> <<>>, cxt |-> cxt, err |-> ty.err]
              ELSE With(IF "default" \in DOMAIN fields[i].o
                        THEN Some(parse_default(fields[i].o["default"], ty.ty))
                        ELSE None, LAMBDA default :
              IF default # None /\ ~default[1].ok
              THEN [ok |-> FALSE, fields |-> <<>>, cxt |-> cxt, err |-> default[1].err]
              ELSE IF validate_name(0, Chars(fields[i].o["name"].s)) # "Ok"
              THEN [ok |-> FALSE, fields |-> <<>>, cxt |-> cxt, err |-> "InvalidName"]
              ELSE parse_record_fields(fields, enclosing_namespace, parsed.cxt, i + 1,
                       FieldInsert(fields_parsed,
                                   MkField(fields[i].o["name"].s, ty.ty,
                                           IF default # None
                                           THEN Some(default[1].value)
                                           ELSE None))))))

\* A "record" arm that leaves the placeholder of the record in the Registry
parse_record_keeping_placeholder(value, enclosing_namespace, cxt) ==
    With(name_from_json(value, enclosing_namespace), LAMBDA rec_name :
    IF ~rec_name.ok THEN ParseErr(rec_name.err)
    ELSE IF ~("fields" \in DOMAIN value /\ value["fields"].j = "Array")
    THEN ParseErr("ExpectedFieldsJsonArray")
    ELSE With(parse_record_fields(
                  value["fields"].a,
                  IF rec_name.name.namespace # None THEN rec_name.name.namespace
                  ELSE enclosing_namespace,
                  RegistryInsert(cxt, name_to_string(rec_name.name),
                                 SNamed(name_to_string(rec_name.name))),
                  1, <<>>), LAMBDA fields :
         IF ~fields.ok THEN ParseErr(fields.err)
         ELSE ParseOk(SRecord(rec_name.name, fields.fields), fields.cxt)))

\* The "record" arm of Registry::parse_object
parse_record(value, enclosing_namespace, cxt) ==
    With(name_from_json(value, enclosing_namespace), LAMBDA rec_name :
    IF ~rec_name.ok THEN ParseErr(rec_name.err)
    ELSE IF ~("fields" \in DOMAIN value /\ value["fields"].j = "Array")
    THEN ParseErr("ExpectedFieldsJsonArray")
    ELSE With(parse_record_fields(
                  value["fields"].a,
                  IF rec_name.name.namespace # None THEN rec_name.name.namespace
                  ELSE enclosing_namespace,
                  RegistryInsert(cxt, name_to_string(rec_name.name),
                                 SNamed(name_to_string(rec_name.name))),
                  1, <<>>), LAMBDA fields :
         IF ~fields.ok THEN ParseErr(fields.err)
         ELSE IF fields.cxt[name_to_string(rec_name.name)].tag = "Named"
         THEN ParseOk(SRecord(rec_name.name, fields.fields),
                      RegistryInsert(fields.cxt, name_to_string(rec_name.name),
                                     SRecord(rec_name.name, fields.fields)))
         ELSE ParseErr("DuplicateSchema")))

\* The "enum" arm of Registry::parse_object
parse_enum(value, enclosing_namespace, cxt) ==
    With(name_from_json(value, enclosing_namespace), LAMBDA name :
    IF ~name.ok THEN ParseErr(name.err)
    ELSE IF "symbols" \notin DOMAIN value THEN ParseErr("EnumSymbolsMissing")
    ELSE IF value["symbols"].j # "Array" THEN ParseErr("EnumParseErr")
    ELSE With(parse_symbols(value["symbols"].a, 1, <<>>), LAMBDA symbols :
         IF ~symbols.ok THEN ParseErr(symbols.err)
         ELSE ParseOk(SEnum(name.name, symbols.symbols),
                      RegistryInsert(cxt, fullname(name.name),
                                     SEnum(name.name, symbols.symbols)))))

\* The "fixed" arm of Registry::parse_object
parse_fixed(value, enclosing_namespace, cxt) ==
    With(name_from_json(value, enclosing_namespace), LAMBDA name :
    IF ~name.ok THEN ParseErr(name.err)
    ELSE IF "size" \notin DOMAIN value THEN ParseErr("FixedSizeNotFound")
    ELSE IF ~(value["size"].j = "Number" /\ value["size"].n >= 0)
    THEN ParseErr("FixedSizeNotNumber")
    ELSE ParseOk(SFixed(name.name, value["size"].n),
                 RegistryInsert(cxt, fullname(name.name),
                                SFixed(name.name, value["size"].n))))

\* Registry::parse_object
parse_object(value, enclosing_namespace, cxt) ==
    IF ~HasStr(value, "type") THEN ParseErr("SchemaParseFailed")
    ELSE IF value["type"].s = "record" THEN parse_record(value, enclosing_namespace, cxt)
    ELSE IF value["type"].s = "enum" THEN parse_enum(value, enclosing_namespace, cxt)
    ELSE IF value["type"].s = "array"
    THEN IF "items" \notin DOMAIN value THEN ParseErr("SchemaParseErr")
         ELSE With(parse_schema(value["items"], enclosing_namespace, cxt), LAMBDA parsed_items :
              IF ~parsed_items.ok THEN parsed_items
              ELSE ParseOk(SArray(parsed_items.variant), parsed_items.cxt))
    ELSE IF value["type"].s = "map"
    THEN IF "values" \notin DOMAIN value THEN ParseErr("SchemaParseErr")
         ELSE With(parse_schema(value["values"], enclosing_namespace, cxt), LAMBDA parsed_items :
              IF ~parsed_items.ok THEN parsed_items
              ELSE ParseOk(SMap(parsed_items.variant), parsed_items.cxt))
    ELSE IF value["type"].s = "fixed" THEN parse_fixed(value, enclosing_namespace, cxt)
    ELSE IF value["type"].s \in DOMAIN PrimitiveNames
    THEN ParseOk(PrimitiveNames[value["type"].s], cxt)
    ELSE ParseErr("SchemaParseFailed")

\* Registry::parse_schema
parse_schema(value, enclosing_namespace, cxt) ==
    IF value.j = "Object" THEN parse_object(value.o, enclosing_namespace, cxt)
    ELSE IF value.j = "String" THEN parse_primitive(value.s, enclosing_namespace, cxt)
    ELSE IF value.j = "Array" THEN parse_union(value.a, enclosing_namespace, cxt, 1, <<>>)
    ELSE ParseErr("UnknownSchema")

\* Schema::parse_imp, as Schema::from_str calls it on the JSON it has read
parse_imp(schema_json) ==
    IF normalize_schema(schema_json) # "Ok" THEN ParseErr(normalize_schema(schema_json))
    ELSE parse_schema(schema_json, None, EmptyRegistry)

\* ------------------------------------------------------------------------
\* Codec (codec.rs): the null codec frames the block as length, bytes
\* ------------------------------------------------------------------------

\* "null"
CodecNullName == <<110, 117, 108, 108>>

\* "snappy"
CodecSnappyName == <<115, 110, 97, 112, 112, 121>>

\* Codec::as_ref
codec_as_ref(codec) == IF codec = "Snappy" THEN CodecSnappyName ELSE CodecNullName

\* Codec::try_from(&str), in a build with the snappy feature
codec_try_from(name) ==
    IF name = CodecNullName THEN [ok |-> TRUE, codec |-> "Null"]
    ELSE IF name = CodecSnappyName THEN [ok |-> TRUE, codec |-> "Snappy"]
    ELSE [ok |-> FALSE, codec |-> "Null"]

\* config::CRC_CHECKSUM_LEN
CRC_CHECKSUM_LEN == 4

\* Bitwise exclusive or of two naturals
RECURSIVE Xor(_, _)
Xor(a, b) ==
    IF a = 0 THEN b
    ELSE IF b = 0 THEN a
    ELSE ((a + b) % 2) + 2 * Xor(a \div 2, b \div 2)

\* A 32-bit register is kept as its two 16-bit halves.  The reflected CRC-32
\* (IEEE) polynomial 0xEDB88320:
CrcPolyIeee == [hi |-> 60856, lo |-> 33568]

\* One bit of the register is shifted out
CrcShift(c) ==
    IF c.lo % 2 = 1
    THEN [hi |-> Xor(c.hi \div 2, CrcPolyIeee.hi),
          lo |-> Xor((c.lo \div 2) + (c.hi % 2) * 32768, CrcPolyIeee.lo)]
    ELSE [hi |-> c.hi \div 2, lo |-> (c.lo \div 2) + (c.hi % 2) * 32768]

RECURSIVE CrcShifts(_, _)
CrcShifts(c, n) ==
    IF n = 0 THEN c ELSE Strict(CrcShift(c), LAMBDA next : CrcShifts(next, n - 1))

\* crc32::make_table(IEEE)[k]
CrcTable(k) == CrcShifts([hi |-> 0, lo |-> k], 8)

\* crc32::update: table[(value ^ byte) & 0xFF] ^ (value >> 8), byte by byte
RECURSIVE CrcUpdate(_, _, _)
CrcUpdate(c, bs, i) ==
    IF i > Len(bs) THEN c
    ELSE Strict(CrcTable(Xor(c.lo % 256, bs[i])), LAMBDA t :
         Strict([hi |-> Xor(t.hi, c.hi \div 256),
                 lo |-> Xor(t.lo, (c.lo \div 256) + (c.hi % 256) * 256)], LAMBDA next :
         CrcUpdate(next, bs, i + 1)))

\* crc32::checksum_ieee
checksum_ieee(bs) ==
    With(CrcUpdate([hi |-> 65535, lo |-> 65535], bs, 1), LAMBDA c :
    [hi |-> 65535 - c.hi, lo |-> 65535 - c.lo])

\* codec::get_crc_uncompressed: the checksum written with write_u32::<BigEndian>
get_crc_uncompressed(pre_comp_buf) ==
    With(checksum_ieee(pre_comp_buf), LAMBDA c :
    <<c.hi \div 256, c.hi % 256, c.lo \div 256, c.lo % 256>>)

\* ------------------------------------------------------------------------
\* Fingerprint (schema/canonical.rs).  An i64 is kept as its four 16-bit
\* words, the most significant first.
\* ------------------------------------------------------------------------

\* 0xc15d213aa4d7a795
EMPTY == <<49501, 8506, 42199, 42901>>

\* a ^ b on i64
Xor64(a, b) == [i \in 1..4 |-> Xor(a[i], b[i])]

\* (fp as u64 >> 1) as i64 and (fp as u64 >> 8) as i64
ShiftRight64(fp, bits) ==
    [i \in 1..4 |-> (fp[i] \div Pow2(bits))
                    + (IF i = 1 THEN 0 ELSE (fp[i - 1] % Pow2(bits)) * Pow2(16 - bits))]

\* fp = (fp as u64 >> 1) as i64 ^ (EMPTY & -(fp & 1)), n times
RECURSIVE FpShifts(_, _)
FpShifts(fp, n) ==
    IF n = 0 THEN fp
    ELSE Strict(Xor64(ShiftRight64(fp, 1), IF fp[4] % 2 = 1 THEN EMPTY ELSE <<0, 0, 0, 0>>),
                LAMBDA next : FpShifts(next, n - 1))

\* FP_TABLE[i]
FP_TABLE(i) == FpShifts(<<0, 0, 0, i>>, 8)

\* A fingerprint that starts from 0 instead of EMPTY
RECURSIVE RabinUpdate(_, _, _)
rabin64_from_zero(buf) == RabinUpdate(<<0, 0, 0, 0>>, buf, 1)

\* The for_each of CanonicalSchema::rabin64 from the i-th byte on
RabinUpdate(fp, buf, i) ==
    IF i > Len(buf) THEN fp
    ELSE Strict(Xor64(ShiftRight64(fp, 8), FP_TABLE(Xor(fp[4] % 256, buf[i]))),
                LAMBDA next : RabinUpdate(next, buf, i + 1))

\* CanonicalSchema::rabin64 on the bytes of self.0.to_string()
rabin64(buf) == RabinUpdate(EMPTY, buf, 1)

\* serde_json's to_string of a JSON string of plain ASCII characters
json_to_string(json) == <<34>> \o as_bytes(json.s) \o <<34>>

\* The longest literal whose length fits the tag byte of a snappy element
SnappyMaxTagLiteral == 60

\* codec::compress_snappy (snap::Encoder::compress_vec) for a block too short
\* for snap to look for copies: the length as a varint, then one literal
compress_snappy(uncompressed_buffer) ==
    IF uncompressed_buffer = <<>> THEN <<0>>
    ELSE UVarint(Len(uncompressed_buffer))
         \o <<(Len(uncompressed_buffer) - 1) * 4>> \o uncompressed_buffer

\* snap::Decoder::decompress after the length header: the literals of data
\* from pos on, appended to out.  A tag that is no short literal is not
\* followed: it ends the decoding with an error, as a literal that runs over
\* the input or the announced length does.
RECURSIVE SnappyLiterals(_, _, _, _)
SnappyLiterals(data, pos, dlen, out) ==
    IF pos >= Len(data) THEN [ok |-> Len(out) = dlen, out |-> out]
    ELSE With(data[pos + 1], LAMBDA tag :
         With((tag \div 4) + 1, LAMBDA n :
         IF tag % 4 # 0 \/ n > SnappyMaxTagLiteral \/ pos + 1 + n > Len(data)
            \/ Len(out) + n > dlen
         THEN [ok |-> FALSE, out |-> out]
         ELSE SnappyLiterals(data, pos + 1 + n, dlen, out \o Slice(data, pos + 1, n))))

\* Vec::resize(n, 0)
Resize(v, n) == [i \in 1..n |-> IF i <= Len(v) THEN v[i] ELSE 0]

\* codec::decompress_snappy.  buf is what the call leaves in `uncompressed`,
\* also when it fails.
decompress_snappy(compressed_buffer, uncompressed) ==
    IF Len(compressed_buffer) < CRC_CHECKSUM_LEN
    THEN [ok |-> FALSE, buf |-> uncompressed, err |-> "panic"]
    ELSE With(SubSeq(compressed_buffer, 1, Len(compressed_buffer) - CRC_CHECKSUM_LEN),
              LAMBDA data_minus_cksum :
         With(IF data_minus_cksum = <<>>
              THEN [ok |-> TRUE, val |-> 0, pos |-> 0, err |-> ""]
              ELSE ReadUVarintFrom(data_minus_cksum, 0, <<>>), LAMBDA size :
         IF ~size.ok THEN [ok |-> FALSE, buf |-> uncompressed, err |-> "DecodeFailed"]
         ELSE With(SnappyLiterals(data_minus_cksum, size.pos, size.val, <<>>), LAMBDA d :
              With(d.out \o SubSeq(Resize(uncompressed, size.val), Len(d.out) + 1, size.val),
                   LAMBDA filled :
              IF ~d.ok THEN [ok |-> FALSE, buf |-> filled, err |-> "DecodeFailed"]
              ELSE IF get_crc_uncompressed(filled)
                      # SubSeq(compressed_buffer,
                               Len(compressed_buffer) - CRC_CHECKSUM_LEN + 1,
                               Len(compressed_buffer))
              THEN [ok |-> FALSE, buf |-> filled, err |-> "CRCMismatch"]
              ELSE [ok |-> TRUE, buf |-> filled, err |-> ""]))))

\* Codec::encode: what reaches out_stream
codec_encode(codec, block_stream) ==
    IF codec = "Snappy"
    THEN With(compress_snappy(block_stream), LAMBDA compressed_data :
         encode_long(Len(compressed_data) + CRC_CHECKSUM_LEN)
         \o compressed_data \o get_crc_uncompressed(block_stream))
    ELSE encode_long(Len(block_stream)) \o encode_raw_bytes(block_stream)

\* Codec::decode: the new content of the block buffer.  Null replaces the
\* cursor by one over the block's bytes; Snappy writes into the buffer.
codec_decode(codec, compressed, uncompressed) ==
    IF codec = "Snappy" THEN decompress_snappy(compressed, uncompressed)
    ELSE [ok |-> TRUE, buf |-> compressed, err |-> ""]

\* ------------------------------------------------------------------------
\* File header (writer.rs encode_header, reader.rs Header::from_reader)
\* ------------------------------------------------------------------------

\* config::MAGIC_BYTES  b"Obj\x01"
MAGIC_BYTES == <<79, 98, 106, 1>>

\* config::SYNC_MARKER_SIZE
SYNC_MARKER_SIZE == 16

\* config::BLOCK_SIZE
BLOCK_SIZE == 4096

\* config::DEFAULT_FLUSH_INTERVAL
DEFAULT_FLUSH_INTERVAL == 16 * BLOCK_SIZE

\* "avro.schema"
KeyAvroSchema == <<97, 118, 114, 111, 46, 115, 99, 104, 101, 109, 97>>

\* "avro.codec"
KeyAvroCodec == <<97, 118, 114, 111, 46, 99, 111, 100, 101, 99>>

MetaSchema == SMap(SBytes)

\* The metadata map of encode_header, in one of the two orders in which the
\* HashMap may iterate
MetaMap(schema, codec, schemaFirst) ==
    LET a == <<KeyAvroSchema, VBytes(schema.text)>>
        b == <<KeyAvroCodec, VBytes(codec_as_ref(codec))>> IN
    VMap(IF schemaFirst THEN <<a, b>> ELSE <<b, a>>)

\* Writer::encode_header: magic, metadata map, sync marker
encode_header(schema, codec, sync, schemaFirst) ==
    MAGIC_BYTES
    \o encode(MetaMap(schema, codec, schemaFirst), MetaSchema, EmptyRegistry).out
    \o encode_raw_bytes(sync)

\* decode_header_map: count, then (string key, bytes value) pairs, then the
\* end-of-map varint.  Result val: the (key, value) pairs.
RECURSIVE decode_header_entries(_, _, _, _)
decode_header_entries(buf, pos, n, acc) ==
    IF n <= 0
    THEN With(read_varint(buf, pos), LAMBDA e :
         IF ~e.ok THEN DecErr(e.pos, "DecodeFailed")
         ELSE [ok |-> TRUE, val |-> acc, pos |-> e.pos, err |-> ""])
    ELSE With(decode_string(buf, pos), LAMBDA k :
         IF ~k.ok THEN k
         ELSE With(decode_bytes(buf, k.pos), LAMBDA v :
              IF ~v.ok THEN DecErr(v.pos, v.err)
              ELSE decode_header_entries(buf, v.pos, n - 1,
                                         IndexMapInsert(acc, k.val.v, v.val))))

decode_header_map(buf, pos) ==
    With(read_varint(buf, pos), LAMBDA c :
    IF ~c.ok THEN DecErr(c.pos, "DecodeFailed")
    ELSE IF c.val < 0 THEN DecErr(c.pos, "panic")
    ELSE decode_header_entries(buf, c.pos, c.val, <<>>))

\* ------------------------------------------------------------------------
\* Scenarios: a writer schema, the reader schema handed to the Reader (None
\* for Reader::new) and the values the caller may try to write
\* ------------------------------------------------------------------------

\* 0.5f32, and 0.1f64 = 0x3FB999999999999A
F32Half == [s |-> 0, e |-> 126, m |-> 0]
F64Tenth == [s |-> 0, e |-> 1019, mh |-> 40265318, ml |-> 26843546]

\* "hi", "é" as UTF-8, and a byte string that is not UTF-8
BytesHi == <<104, 105>>
BytesEAcute == <<195, 169>>
BytesNotUtf8 == <<255>>

\* What the caller tries to write under each primitive schema: values of the
\* schema's own type, values the writer promotes, and one value that does
\* not validate
PrimValuesFor(w) ==
    CASE w = SchemaNull -> {VNull, VInt(3)}
      [] w = SchemaBoolean -> {VBoolean(TRUE), VBoolean(FALSE), VNull}
      [] w = SchemaInt -> {VInt(3), VInt(-64), VLong(1024)}
      [] w = SchemaLong -> {VLong(1024), VLong(-1), VInt(3), VNull}
      [] w = SchemaFloat -> {VFloat(F32Half), VFloat(IntAsF32(1026)), VInt(16777217), VNull}
      [] w = SchemaDouble -> {VDouble(F64Tenth), VDouble(IntAsF64(-2)), VFloat(F32Half), VNull}
      [] w = SchemaBytes -> {VBytes(BytesHi), VBytes(BytesNotUtf8), VStr(BytesEAcute), VNull}
      [] w = SchemaStr -> {VStr(BytesHi), VStr(BytesEAcute), VBytes(BytesNotUtf8), VNull}

MkScenario(w, r, vals) == [w |-> w, r |-> r, values |-> vals]

\* A primitive schema, read back without a reader schema or with the same one
PrimScenarios ==
    { MkScenario(w, None, PrimValuesFor(w)) : w \in PrimitiveSchemas }
    \cup { MkScenario(w, Some(w), PrimValuesFor(w)) : w \in PrimitiveSchemas }

\* Arrays of strings: ["a"], ["v", "r"], and the empty array, which does not
\* validate
ArrayValues ==
    { VArray(<<VStr(<<97>>)>>), VArray(<<VStr(<<118>>), VStr(<<114>>)>>), VArray(<<>>) }

ArrayScenarios ==
    { MkScenario(SchemaArrayStr, None, ArrayValues),
      MkScenario(SchemaArrayStr, Some(SchemaArrayStr), ArrayValues) }

\* Record values: Record::new("Rec") followed by one insert per pair
Rec(pairs) == VRecord("Rec", pairs)

\* Inserted in schema order, inserted in another order, and with a field the
\* schema lacks
RecABValues ==
    { Rec(<<<<"a", VLong(1)>>, <<"b", VLong(2)>>>>),
      Rec(<<<<"b", VLong(4)>>, <<"a", VLong(3)>>>>),
      Rec(<<<<"z", VLong(5)>>>>) }

RecABCValues ==
    { Rec(<<<<"a", VLong(1)>>, <<"b", VLong(2)>>, <<"c", VLong(3)>>>>),
      Rec(<<<<"a", VLong(4)>>, <<"b", VLong(5)>>, <<"c", VLong(6)>>>>) }

\* Readers with the writer's fields in another order, and with fewer fields
RecordScenarios ==
    { MkScenario(SchemaRecAB, None, RecABValues),
      MkScenario(SchemaRecAB, Some(SchemaRecBA), RecABValues),
      MkScenario(SchemaRecABC, Some(SchemaRecCA), RecABCValues),
      MkScenario(SchemaRecABC, Some(SchemaRecAB), RecABCValues) }

\* LongList values of depth 1, 2 and 3
LongListValue(value, next) == VRecord("LongList", <<<<"value", VLong(value)>>, <<"next", next>>>>)

LongListValues ==
    { LongListValue(1, VNull),
      LongListValue(1, LongListValue(2, VNull)),
      LongListValue(1, LongListValue(2, LongListValue(3, VNull))) }

LongListScenarios ==
    { MkScenario(SchemaLongList, Some(SchemaLongListDefault), LongListValues),
      MkScenario(SchemaLongList, Some(SchemaLongList), LongListValues) }

\* Enum Foo written with the symbols A, B, C, D
EnumValues == { VEnum("A"), VEnum("C"), VEnum("Z") }

EnumScenarios ==
    { MkScenario(SchemaFooABCD, Some(r), EnumValues) :
        r \in {SchemaFooABCD, SchemaFooF, SchemaFooDCBA, SchemaFooAB} }

\* Fixed F of size 2, read as F or G of size 2 or 3
FixedValues == { VFixed(<<1, 2>>), VFixed(<<3, 4>>), VFixed(<<9>>) }

FixedScenarios ==
    { MkScenario(SchemaFixedF2, Some(r), FixedValues) :
        r \in {SchemaFixedF2, SchemaFixedG2, SchemaFixedF3, SchemaFixedG3} }

\* A writer union read with a schema that is not a union
UnionScenarios ==
    { MkScenario(SchemaUnionNullInt, Some(SchemaInt), {VNull, VInt(3), VStr(BytesHi)}),
      MkScenario(SchemaUnionLongInt, Some(SchemaInt), {VLong(7), VInt(3), VNull}),
      MkScenario(SchemaUnionLongInt, Some(SchemaLong), {VLong(7), VInt(3), VNull}) }

\* Records of either branch of a union of two records
UnionABValues ==
    { VRecord("A", <<<<"x", VLong(1)>>>>), VRecord("A", <<<<"x", VLong(-3)>>>>),
      VRecord("B", <<<<"y", VLong(2)>>>>), VRecord("B", <<<<"y", VLong(64)>>>>) }

UnionOfRecordsScenarios ==
    { MkScenario(SchemaUnionAB, None, UnionABValues),
      MkScenario(SchemaUnionAB, Some(SchemaUnionAB), UnionABValues) }

\* The promoted pairs of writer and reader schema
IntValues == { VInt(3), VInt(-64), VInt(16777217) }
LongValues == { VLong(1024), VLong(-1), VLong(16777217) }
FloatValues == { VFloat(F32Half), VFloat(IntAsF32(1026)) }

PromotionScenarios ==
    { MkScenario(SchemaInt, Some(SchemaLong), IntValues),
      MkScenario(SchemaInt, Some(SchemaFloat), IntValues),
      MkScenario(SchemaInt, Some(SchemaDouble), IntValues),
      MkScenario(SchemaLong, Some(SchemaFloat), LongValues),
      MkScenario(SchemaLong, Some(SchemaDouble), LongValues),
      MkScenario(SchemaFloat, Some(SchemaDouble), FloatValues),
      MkScenario(SchemaBytes, Some(SchemaStr), {VBytes(BytesHi), VBytes(BytesNotUtf8)}),
      MkScenario(SchemaStr, Some(SchemaBytes), {VStr(BytesHi), VStr(BytesEAcute)}) }

\* Files read back with the schema they were written with: a record with a
\* field that is a named reference, an array, a map, an enum and a fixed
RecNamedValues ==
    { VRecord("R", <<<<"a", VRecord("A", <<<<"x", VLong(1)>>>>)>>,
                     <<"b", VRecord("A", <<<<"x", VLong(2)>>>>)>>>>),
      VRecord("R", <<<<"a", VRecord("A", <<<<"x", VLong(-3)>>>>)>>,
                     <<"b", VRecord("A", <<<<"x", VLong(64)>>>>)>>>>) }

MapLongValues == { VMap(<<<<<<97>>, VLong(1)>>>>), VMap(<<<<<<98>>, VLong(-2)>>>>) }

SameSchemaScenarios ==
    { MkScenario(SchemaRecNamed, Some(SchemaRecNamed), RecNamedValues),
      MkScenario(SchemaArrayStr, Some(SchemaArrayStr), ArrayValues),
      MkScenario(SchemaMapLong, Some(SchemaMapLong), MapLongValues),
      MkScenario(SchemaFooABCD, Some(SchemaFooABCD), EnumValues),
      MkScenario(SchemaFixedF2, Some(SchemaFixedF2), FixedValues) }

\* The schemas a header may name
KnownSchemas ==
    PrimitiveSchemas
    \cup { SchemaArrayStr, SchemaRecAB, SchemaRecABC, SchemaLongList, SchemaFooABCD,
           SchemaFixedF2, SchemaUnionNullInt, SchemaUnionLongInt, SchemaUnionAB,
           SchemaRecNamed, SchemaMapLong }

\* Schema::from_str on the header's schema text
SchemaFromStr(text) ==
    IF \E k \in KnownSchemas : k.text = text
    THEN [ok |-> TRUE, schema |-> CHOOSE k \in KnownSchemas : k.text = text]
    ELSE [ok |-> FALSE, schema |-> SchemaNull]

\* Two sync markers a Writer may draw
SyncMarkerA == [i \in 1..SYNC_MARKER_SIZE |-> 170]
SyncMarkerB == [i \in 1..SYNC_MARKER_SIZE |-> (i * 7) % 256]

\* A flush interval small enough for write to flush by itself
SmallFlushInterval == 3

\* The environments of a Writer in the model: the sync marker it drew, the
\* flush interval it was built with (WriterBuilder::set_flush_interval) and
\* the order in which the metadata HashMap iterates
Environments ==
    { [sync |-> SyncMarkerA, interval |-> DEFAULT_FLUSH_INTERVAL, schemaFirst |-> TRUE],
      [sync |-> SyncMarkerB, interval |-> SmallFlushInterval, schemaFirst |-> FALSE] }

\* Values accepted by validation per Writer
MaxWrites == 3

\* Items a Reader is asked for before the caller gives up
MaxReads == 8

\* ------------------------------------------------------------------------
\* State
\* ------------------------------------------------------------------------

VARIABLES
    schema,            \* Writer.schema
    reader_schema,     \* the Reader's reader_schema: None or Some(Schema)
    values,            \* the values the caller may pass to write
    out_stream,        \* Writer.out_stream, later the Reader's source
    block_stream,      \* Writer.block_stream
    block_count,       \* Writer.block_count
    sync_marker,       \* Writer.sync_marker
    flush_interval,    \* Writer.flush_interval
    codec,             \* Writer.codec
    phase,             \* "writing", "written", "reading", "failed", "done", "panicked"
    source_pos,        \* how far the Reader has read its source
    header,            \* Reader.header: None or Some([schema, sync_marker, codec])
    block_buffer,      \* Reader.block_buffer (the bytes)
    block_pos,         \* Reader.block_buffer (the cursor position)
    entries_in_block,  \* Reader.entries_in_block, as the i64 with the same bits
    written,           \* history: the values written successfully
    offered,           \* history: the values handed to a write that got past validation
    results,           \* history: the items the Reader's iterator yielded
    last,              \* the result of the last operation
    schema_json,       \* the JSON a caller hands to Schema::from_str, None if there is none
    from_str_result,   \* None, or Some(what Schema::from_str returned)
    built_record,      \* a value::Record a caller builds with Record::new and insert
    canonical_result,  \* None, or Some(what Schema::from_str returned for the canonical form)
    fingerprint        \* None, or Some(what CanonicalSchema::rabin64 returned)

writer_vars == <<out_stream, block_stream, block_count>>
reader_vars == <<source_pos, header, block_buffer, block_pos, entries_in_block, results>>
setup_vars == <<schema, reader_schema, values, sync_marker, flush_interval, codec>>
parser_vars == <<schema_json, from_str_result, built_record, canonical_result, fingerprint>>
vars == <<setup_vars, writer_vars, reader_vars, parser_vars, phase, written, offered, last>>

\* Record::new
RecordNew(name) == [name |-> name, fields |-> <<>>]

\* Writer::new / WriterBuilder::build (set_codec(cdc)) for one scenario: the
\* header is in the sink, the block buffer is empty.  The Reader does not
\* exist yet.
InitCodec(scenarios, cdc) ==
    \E sc \in scenarios, env \in Environments :
        /\ schema = sc.w
        /\ reader_schema = sc.r
        /\ values = sc.values
        /\ sync_marker = env.sync
        /\ flush_interval = env.interval
        /\ codec = cdc
        /\ out_stream = encode_header(sc.w, cdc, env.sync, env.schemaFirst)
        /\ block_stream = <<>>
        /\ block_count = 0
        /\ phase = "writing"
        /\ source_pos = 0
        /\ header = None
        /\ block_buffer = <<>>
        /\ block_pos = 0
        /\ entries_in_block = 0
        /\ written = <<>>
        /\ offered = <<>>
        /\ results = <<>>
        /\ last = "Ok"
        /\ schema_json = None
        /\ from_str_result = None
        /\ built_record = RecordNew("")
        /\ canonical_result = None
        /\ fingerprint = None

\* Writer::new: the null codec
InitWith(scenarios) == InitCodec(scenarios, "Null")

\* ------------------------------------------------------------------------
\* Writer (writer.rs)
\* ------------------------------------------------------------------------

\* A block that is closed by a marker of its own instead of the Writer's
FlushBytesFreshMarker(count, stream, cdc, sync) ==
    encode_long(count) \o codec_encode(cdc, stream)
        \o encode_raw_bytes([i \in 1..SYNC_MARKER_SIZE |-> (sync[i] + 1) % 256])

\* What Writer::flush appends to the sink for a non-empty block
FlushBytes(count, stream, cdc, sync) ==
    encode_long(count) \o codec_encode(cdc, stream) \o encode_raw_bytes(sync)

\* A flush that forgets reset_block_buffer
flush_without_reset(out, stream, count, cdc, sync) ==
    IF count = 0
    THEN [out |-> out, stream |-> stream, count |-> count]
    ELSE [out |-> out \o encode_long(count) \o codec_encode(cdc, stream)
                      \o encode_raw_bytes(sync),
          stream |-> stream, count |-> 0]

\* A flush that writes a block whatever the datum count
flush_any_count(out, stream, count, cdc, sync) ==
    [out |-> out \o FlushBytes(count, stream, cdc, sync), stream |-> <<>>, count |-> 0]

\* Writer::flush as a function of the writer state
flush(out, stream, count, cdc, sync) ==
    IF count = 0
    THEN [out |-> out, stream |-> stream, count |-> count]
    ELSE [out |-> out \o FlushBytes(count, stream, cdc, sync), stream |-> <<>>, count |-> 0]

\* A write that flushes only once the buffer is longer than the interval
flush_due_above(stream, interval) == Len(stream) > interval

\* self.block_stream.len() >= self.flush_interval in Writer::write
flush_due(stream, interval) == Len(stream) >= interval

\* Writer::write
Write(value) ==
    /\ phase = "writing"
    /\ Len(offered) < MaxWrites
    /\ \E valid \in {validate(value, schema.variant, schema.cxt)} :
       IF valid # "Ok"
       THEN /\ last' = valid
            /\ UNCHANGED <<writer_vars, written, offered>>
       ELSE \E e \in {encode(value, schema.variant, schema.cxt)} :
            \E stream1 \in {block_stream \o e.out} :
            /\ offered' = Append(offered, value)
            /\ IF ~e.ok
               THEN /\ block_stream' = stream1
                    /\ last' = e.err
                    /\ UNCHANGED <<out_stream, block_count, written>>
               ELSE \E f \in {IF flush_due(stream1, flush_interval)
                              THEN flush(out_stream, stream1, block_count + 1, codec,
                                         sync_marker)
                              ELSE [out |-> out_stream, stream |-> stream1,
                                    count |-> block_count + 1]} :
                    /\ out_stream' = f.out
                    /\ block_stream' = f.stream
                    /\ block_count' = f.count
                    /\ written' = Append(written, value)
                    /\ last' = "Ok"
    /\ UNCHANGED <<setup_vars, parser_vars, reader_vars, phase>>

\* Writer::flush
Flush ==
    /\ phase = "writing"
    /\ \E f \in {flush(out_stream, block_stream, block_count, codec, sync_marker)} :
       /\ out_stream' = f.out
       /\ block_stream' = f.stream
       /\ block_count' = f.count
    /\ last' = "Ok"
    /\ UNCHANGED <<setup_vars, parser_vars, reader_vars, phase, written, offered>>

\* Writer::into_inner: flush and hand over the sink
IntoInner ==
    /\ phase = "writing"
    /\ \E f \in {flush(out_stream, block_stream, block_count, codec, sync_marker)} :
       /\ out_stream' = f.out
       /\ block_stream' = f.stream
       /\ block_count' = f.count
    /\ phase' = "written"
    /\ last' = "Ok"
    /\ UNCHANGED <<setup_vars, parser_vars, reader_vars, written, offered>>

\* ------------------------------------------------------------------------
\* Reader (reader.rs)
\* ------------------------------------------------------------------------

\* HashMap::get on the decoded metadata pairs: None or Some(value)
MapGet(pairs, key) ==
    With(KeyIndex(pairs, key), LAMBDA i :
    IF i = 0 THEN None ELSE Some(pairs[i][2]))

HeaderErr(e) ==
    [ok |-> FALSE, err |-> e, pos |-> 0,
     hdr |-> [schema |-> SchemaNull, sync_marker |-> <<>>, codec |-> "Null"]]

\* A Header::from_reader that reads the metadata map before it looks at the
\* magic bytes
header_map_before_magic(buf) ==
    With(read_exact(buf, 0, 4), LAMBDA magic :
    IF ~magic.ok THEN HeaderErr("HeaderDecodeFailed")
    ELSE With(decode_header_map(buf, magic.pos), LAMBDA map :
         IF ~map.ok THEN HeaderErr(map.err)
         ELSE HeaderErr(IF magic.val # MAGIC_BYTES THEN "InvalidDataFile"
                        ELSE "HeaderDecodeFailed")))

\* Header::from_reader
header_from_reader(buf) ==
    With(read_exact(buf, 0, 4), LAMBDA magic :
    IF ~magic.ok THEN HeaderErr("HeaderDecodeFailed")
    ELSE IF magic.val # MAGIC_BYTES THEN HeaderErr("InvalidDataFile")
    ELSE With(decode_header_map(buf, magic.pos), LAMBDA map :
         IF ~map.ok THEN HeaderErr(map.err)
         ELSE With(read_exact(buf, map.pos, SYNC_MARKER_SIZE), LAMBDA sync :
              With(MapGet(map.val, KeyAvroSchema), LAMBDA schema_bytes :
              With(MapGet(map.val, KeyAvroCodec), LAMBDA codec_bytes :
              IF ~sync.ok THEN HeaderErr("HeaderDecodeFailed")
              ELSE IF schema_bytes = None THEN HeaderErr("HeaderDecodeFailed")
              ELSE IF ~from_utf8_ok(schema_bytes[1]) THEN HeaderErr("HeaderDecodeFailed")
              ELSE With(SchemaFromStr(schema_bytes[1]), LAMBDA parsed :
                   IF ~parsed.ok THEN HeaderErr("SchemaParseErr")
                   ELSE With(IF codec_bytes = None THEN [ok |-> TRUE, codec |-> "Null"]
                                 ELSE IF ~from_utf8_ok(codec_bytes[1])
                                 THEN [ok |-> FALSE, codec |-> "Null"]
                                 ELSE codec_try_from(codec_bytes[1]), LAMBDA c :
                        IF ~c.ok THEN HeaderErr("UnsupportedCodec")
                        ELSE [ok |-> TRUE, err |-> "", pos |-> sync.pos,
                              hdr |-> [schema |-> parsed.schema,
                                       sync_marker |-> sync.val,
                                       codec |-> c.codec]])))))))

\* Reader::new / Reader::with_schema over the bytes the Writer produced
ReaderNew ==
    /\ phase = "written"
    /\ \E h \in {header_from_reader(out_stream)} :
       IF h.err = "panic"
       THEN /\ phase' = "panicked"
            /\ last' = "panic"
            /\ UNCHANGED reader_vars
       ELSE IF ~h.ok
       THEN /\ phase' = "failed"
            /\ last' = h.err
            /\ UNCHANGED reader_vars
       ELSE /\ phase' = "reading"
            /\ last' = "Ok"
            /\ header' = Some(h.hdr)
            /\ source_pos' = h.pos
            /\ block_buffer' = <<>>
            /\ block_pos' = 0
            /\ entries_in_block' = 0
            /\ UNCHANGED results
    /\ UNCHANGED <<setup_vars, parser_vars, writer_vars, written, offered>>

\* Reader::next_block.  The result tells what the call left behind: the
\* source position, entries_in_block and the block buffer (each only when
\* the call got far enough to assign it), and the io error kind ("" for Ok).
next_block(src, pos, hdr, entries, buf, bpos) ==
    With(read_varint(src, pos), LAMBDA c :
    IF ~c.ok
    THEN [err |-> c.err, pos |-> c.pos, entries |-> entries, buf |-> buf, bpos |-> bpos]
    ELSE With(read_varint(src, c.pos), LAMBDA l :
         IF ~l.ok
         THEN [err |-> l.err, pos |-> l.pos, entries |-> c.val, buf |-> buf, bpos |-> bpos]
         ELSE IF l.val < 0
         THEN [err |-> "panic", pos |-> l.pos, entries |-> c.val, buf |-> buf, bpos |-> bpos]
         ELSE With(read_exact(src, l.pos, l.val), LAMBDA data :
              IF ~data.ok
              THEN [err |-> data.err, pos |-> data.pos, entries |-> c.val,
                    buf |-> buf, bpos |-> bpos]
              ELSE With(codec_decode(hdr.codec, data.val, buf), LAMBDA dec :
                   With(read_exact(src, data.pos, SYNC_MARKER_SIZE), LAMBDA sync :
                   With(IF sync.ok THEN sync.val ELSE [i \in 1..SYNC_MARKER_SIZE |-> 0],
                        LAMBDA sync_marker_buf :
                   IF ~dec.ok
                   THEN [err |-> IF dec.err = "panic" THEN "panic" ELSE "Other",
                         pos |-> data.pos, entries |-> c.val,
                         buf |-> dec.buf, bpos |-> bpos]
                   ELSE [err |-> IF sync_marker_buf # hdr.sync_marker THEN "Other" ELSE "",
                         pos |-> sync.pos, entries |-> c.val,
                         buf |-> dec.buf, bpos |-> 0]))))))

ItemOk(v) == [ok |-> TRUE, val |-> v, err |-> ""]
ItemErr(e) == [ok |-> FALSE, val |-> VNull, err |-> e]

\* Iterator::next for Reader.  underflow: what `entries_in_block -= 1` does
\* at zero, a panic (overflow checks on) or a wrap (overflow checks off).
ReaderNext(underflow) ==
    /\ phase = "reading"
    /\ Len(results) < MaxReads
    /\ \E hdr \in {header[1]} :
       \E nb \in {IF entries_in_block = 0
                  THEN next_block(out_stream, source_pos, hdr, entries_in_block,
                                  block_buffer, block_pos)
                  ELSE [err |-> "", pos |-> source_pos, entries |-> entries_in_block,
                        buf |-> block_buffer, bpos |-> block_pos]} :
       /\ source_pos' = nb.pos
       /\ IF nb.err = "panic"
          THEN /\ phase' = "panicked"
               /\ last' = "panic"
               /\ entries_in_block' = nb.entries
               /\ UNCHANGED <<block_buffer, block_pos, results>>
          ELSE IF nb.err = "UnexpectedEof"
          THEN /\ phase' = "done"
               /\ last' = "None"
               /\ entries_in_block' = nb.entries
               /\ block_buffer' = nb.buf
               /\ block_pos' = nb.bpos
               /\ UNCHANGED results
          ELSE IF nb.err # ""
          THEN /\ last' = "DecodeFailed"
               /\ results' = Append(results, ItemErr("DecodeFailed"))
               /\ entries_in_block' = nb.entries
               /\ block_buffer' = nb.buf
               /\ block_pos' = nb.bpos
               /\ UNCHANGED phase
          ELSE \E value \in {IF reader_schema # None
                              THEN decode_with_resolution(reader_schema[1].variant,
                                                          hdr.schema.variant,
                                                          reader_schema[1].cxt,
                                                          hdr.schema.cxt, nb.buf, nb.bpos)
                              ELSE decode(hdr.schema.variant, nb.buf, nb.bpos,
                                          hdr.schema.cxt)} :
               /\ block_buffer' = nb.buf
               /\ block_pos' = value.pos
               /\ IF value.err = "panic" \/ (nb.entries = 0 /\ underflow = "panic")
                  THEN /\ phase' = "panicked"
                       /\ last' = "panic"
                       /\ entries_in_block' = nb.entries
                       /\ UNCHANGED results
                  ELSE /\ entries_in_block' = nb.entries - 1
                       /\ results' = Append(results,
                                            IF value.ok THEN ItemOk(value.val)
                                            ELSE ItemErr(value.err))
                       /\ last' = IF value.ok THEN "Ok" ELSE value.err
                       /\ UNCHANGED phase
    /\ UNCHANGED <<setup_vars, parser_vars, writer_vars, header, written, offered>>

\* ------------------------------------------------------------------------
\* Properties
\* ------------------------------------------------------------------------

\* The items a Reader is expected to yield for the values written
ItemsOf(f(_), vals) == [i \in 1..Len(vals) |-> f(vals[i])]

IsPrefix(a, b) == Len(a) <= Len(b) /\ a = SubSeq(b, 1, Len(a))

\* The Reader has yielded a prefix of the expected items, all of them once
\* the iteration has ended, and never failed to open or panicked
YieldsInOrder(expected) ==
    /\ phase \notin {"failed", "panicked"}
    /\ phase = "reading" => IsPrefix(results, expected)
    /\ phase = "done" => results = expected

\* The number of blocks that follow the header in buf from pos on, each
\* closed by marker; -1 if the bytes are not such a sequence of blocks
RECURSIVE BlockCountFrom(_, _, _)
BlockCountFrom(buf, pos, marker) ==
    IF pos = Len(buf) THEN 0
    ELSE With(read_varint(buf, pos), LAMBDA c :
         IF ~c.ok THEN -1
         ELSE With(read_varint(buf, c.pos), LAMBDA l :
              IF ~l.ok \/ l.val < 0 THEN -1
              ELSE With(read_exact(buf, l.pos, l.val), LAMBDA data :
                   IF ~data.ok THEN -1
                   ELSE With(read_exact(buf, data.pos, SYNC_MARKER_SIZE), LAMBDA sync :
                        IF ~sync.ok \/ sync.val # marker THEN -1
                        ELSE With(BlockCountFrom(buf, sync.pos, marker), LAMBDA rest :
                             IF rest < 0 THEN -1 ELSE rest + 1)))))

\* The blocks of the sink, counted after the header
BlocksInSink ==
    With(header_from_reader(out_stream), LAMBDA h :
    IF ~h.ok THEN -1 ELSE BlockCountFrom(out_stream, h.pos, h.hdr.sync_marker))

\* What a primitive value written under a primitive schema comes back as:
\* itself under its own type, and the schema's type otherwise (§4.5 promotion
\* on encode); bytes written under string must be UTF-8 to be read
ReadBackAs(value, tag) ==
    CASE value.tag = tag -> ItemOk(value)
      [] value.tag \in {"Int", "Long"} /\ tag = "Long" -> ItemOk(VLong(value.v))
      [] value.tag \in {"Int", "Long"} /\ tag = "Float" -> ItemOk(VFloat(IntAsF32(value.v)))
      [] value.tag \in {"Int", "Long"} /\ tag = "Double" -> ItemOk(VDouble(IntAsF64(value.v)))
      [] value.tag = "Float" /\ tag = "Double" -> ItemOk(VDouble(F32AsF64(value.v)))
      [] value.tag = "Str" /\ tag = "Bytes" -> ItemOk(VBytes(value.v))
      [] value.tag = "Bytes" /\ tag = "Str" ->
            IF from_utf8_ok(value.v) THEN ItemOk(VStr(value.v)) ELSE ItemErr("DecodeFailed")

PrimItem(value) == ReadBackAs(value, schema.variant.tag)

\* C1 as stated: a Reader over the bytes of a primitive-schema Writer yields
\* exactly the written values, in order, each equal to the value written,
\* and then the iteration ends
C1_AsStated == YieldsInOrder(ItemsOf(ItemOk, written))

\* C1: a Reader over the bytes of a primitive-schema Writer yields one item
\* per written value, in the order written, and then the iteration ends,
\* however the values were split into blocks; a value of the schema's own
\* type comes back equal to itself, a promoted value comes back as the
\* schema's type, and non-UTF-8 bytes written under string come back as a
\* decode error
C1_RoundTrip == YieldsInOrder(ItemsOf(PrimItem, written))

\* Two values in two blocks were read back to the end, the first one promoted
C1_Witness ==
    /\ phase = "done"
    /\ Len(results) = 2
    /\ BlocksInSink = 2
    /\ written[1].tag # schema.variant.tag
    /\ written[2].tag = schema.variant.tag

\* C4: the sink starts with the magic bytes 0x4F 0x62 0x6A 0x01 and every
\* block in it is immediately followed by the 16 bytes of the sync marker
\* written in the header
C4_Framing ==
    /\ SubSeq(out_stream, 1, 4) = <<79, 98, 106, 1>>
    /\ BlocksInSink >= 0

\* The Writer was finished with two blocks in the sink
C4_Witness ==
    /\ phase = "written"
    /\ BlocksInSink = 2
    /\ Len(written) = 2

\* The Reader has yielded one item per written value so far, item i standing
\* in relation P to the i-th written value, all of them once the iteration
\* has ended, and has never failed to open or panicked
YieldsEach(P(_, _)) ==
    /\ phase \notin {"failed", "panicked"}
    /\ Len(results) <= Len(written)
    /\ phase = "done" => Len(results) = Len(written)
    /\ \A i \in 1..Len(results) : P(written[i], results[i])

HasField(record, name) == KeyIndex(record.v.fields, name) # 0

\* The value of the field called name in a record value
FieldValueOf(record, name) == record.v.fields[KeyIndex(record.v.fields, name)][2]

\* The field values of a record value encoded one after the other in the
\* order in which the schema declares the fields
RECURSIVE InSchemaOrder(_, _, _, _)
InSchemaOrder(record, sfields, cxt, i) ==
    IF i > Len(sfields) THEN <<>>
    ELSE encode(FieldValueOf(record, sfields[i].name), sfields[i].ty, cxt).out
         \o InSchemaOrder(record, sfields, cxt, i + 1)

\* C2: Value::encode of a Record writes the field values in the order the
\* schema declares the fields, whatever order they were inserted in: while
\* nothing has been flushed, the block buffer holds the written records,
\* each with its fields in schema order
C2_SchemaOrder ==
    (phase = "writing" /\ block_count = Len(written)) =>
        block_stream = Concat([i \in 1..Len(written) |->
                                  InSchemaOrder(written[i], schema.variant.fields,
                                                schema.cxt, 1)])

\* C3: after k >= 1 non-empty arrays are written, the Reader yields exactly
\* k values and the i-th equals the i-th array written; no terminating
\* 0-count block is decoded as an array of its own
C3_ArraysRoundTrip ==
    schema.variant.tag = "Array" =>
        /\ YieldsInOrder(ItemsOf(ItemOk, written))
        /\ \A i \in 1..Len(results) : results[i].ok => results[i].val.v # <<>>

\* The names of the fields of a record, in order
FieldNames(pairs) == [k \in 1..Len(pairs) |-> pairs[k][1]]

\* Every written record had its fields inserted in the writer schema's order
WrittenInSchemaOrder ==
    \A i \in 1..Len(written) :
        FieldNames(written[i].v.fields)
            = [k \in 1..Len(schema.variant.fields) |-> schema.variant.fields[k].name]

\* The names of the reader fields that the writer has too
SharedFields ==
    { reader_schema[1].variant.fields[k].name :
        k \in { k \in 1..Len(reader_schema[1].variant.fields) :
                  FieldIndex(schema.variant.fields,
                             reader_schema[1].variant.fields[k].name) # 0 } }

FieldsByName(value, item) ==
    /\ item.ok
    /\ \A name \in SharedFields :
        /\ HasField(item.val, name)
        /\ FieldValueOf(item.val, name) = FieldValueOf(value, name)

\* C5: in record resolution every reader field that the writer has too is
\* read with the value the writer encoded for the field of that name, also
\* when the writer's order differs or the writer has fields the reader
\* lacks, and the datums that follow stay aligned
C5_FieldsByName ==
    (reader_schema # None /\ WrittenInSchemaOrder) => YieldsEach(FieldsByName)

\* A LongList value with `other` = 1 added at every depth
RECURSIVE WithOther(_)
WithOther(value) ==
    IF value.tag # "Record" THEN value
    ELSE VRecord("LongList",
                 <<<<"value", FieldValueOf(value, "value")>>,
                   <<"next", WithOther(FieldValueOf(value, "next"))>>,
                   <<"other", VLong(1)>>>>)

LongListItem(value) == ItemOk(WithOther(value))

\* C6: LongList data read with the reader schema that adds `other` (default
\* 1) comes back with the written `value` and `next` and with `other` = 1 at
\* the top level and at every nesting depth, and every datum is read
C6_DefaultAtEveryDepth ==
    reader_schema = Some(SchemaLongListDefault) =>
        YieldsInOrder(ItemsOf(LongListItem, written))

EnumBySymbol(value, item) ==
    IF Position(reader_schema[1].variant.symbols, value.v) # 0
    THEN item = ItemOk(value)
    ELSE ~item.ok

\* C7: enum resolution yields the symbol the writer wrote whenever the
\* reader's symbol list contains it, at any position, and fails whenever
\* the reader's list does not contain it
C7_EnumBySymbol == YieldsEach(EnumBySymbol)

FixedByNameAndSize(value, item) ==
    IF /\ fullname(schema.variant.name) = fullname(reader_schema[1].variant.name)
       /\ schema.variant.size = reader_schema[1].variant.size
    THEN item = ItemOk(value)
    ELSE ~item.ok

\* C8: fixed resolution succeeds only if the writer's and the reader's
\* fullnames are equal and their sizes are equal; it fails if either differs
C8_FixedNameAndSize == YieldsEach(FixedByNameAndSize)

\* The branch selected for a primitive value is the one of the value's type
UnionBranchIsReader(value, item) ==
    IF value.tag = reader_schema[1].variant.tag
    THEN item = ItemOk(value)
    ELSE ~item.ok

\* C9: with a writer union and a reader that is not a union, item i is Ok
\* with the written value if the branch selected for datum i is the reader
\* schema and an error otherwise, for every datum, also after a failed one
C9_UnionPerDatum == YieldsEach(UnionBranchIsReader)

\* The f32 f is the float nearest to the integer n (n itself below 2^24)
F32IsInt(f, n) ==
    IF n = 0 THEN f.e = 0 /\ f.m = 0
    ELSE /\ f.s = (IF n < 0 THEN 1 ELSE 0)
         /\ f.e >= 127 /\ f.e <= 157
         /\ LET M == Pow2(23) + f.m
                k == f.e - 150 IN
            IF k >= 0
            THEN 2 * Abs(M * Pow2(k) - Abs(n)) <= Pow2(k)
            ELSE M = Abs(n) * Pow2(-k)

\* The f64 d is the integer n, for |n| < 2^26
F64IsInt(d, n) ==
    IF n = 0 THEN d.e = 0 /\ d.mh = 0 /\ d.ml = 0
    ELSE /\ d.s = (IF n < 0 THEN 1 ELSE 0)
         /\ d.e >= 1023 /\ d.e <= 1023 + 25
         /\ d.ml = 0
         /\ Pow2(26) + d.mh = Abs(n) * Pow2(26 - (d.e - 1023))

\* The f64 d is the same number as the normal f32 f
F64IsF32(d, f) ==
    /\ d.s = f.s
    /\ d.e - 1023 = f.e - 127
    /\ d.mh = f.m * 8
    /\ d.ml = 0

\* item is a successful read of a value of the reader's type equivalent to
\* the written one
Equivalent(value, item) ==
    LET wt == value.tag
        rt == reader_schema[1].variant.tag IN
    /\ item.ok
    /\ item.val.tag = rt
    /\ CASE wt \in {"Int", "Long"} /\ rt = "Long" -> item.val.v = value.v
         [] wt \in {"Int", "Long"} /\ rt = "Float" -> F32IsInt(item.val.v, value.v)
         [] wt \in {"Int", "Long"} /\ rt = "Double" -> F64IsInt(item.val.v, value.v)
         [] wt = "Float" /\ rt = "Double" -> F64IsF32(item.val.v, value.v)
         [] wt \in {"Bytes", "Str"} /\ rt \in {"Bytes", "Str"} -> item.val.v = value.v

EquivalentOrNotUtf8(value, item) ==
    IF value.tag = "Bytes" /\ reader_schema[1].variant.tag = "Str" /\ ~from_utf8_ok(value.v)
    THEN item = ItemErr("DecodeFailed")
    ELSE Equivalent(value, item)

\* C10 as stated: for every promoted pair a written value is read
\* successfully as an equivalent value of the reader's type
C10_AsStated == YieldsEach(Equivalent)

\* C10: for every promoted pair a written value is read successfully as an
\* equivalent value of the reader's type (the same integer, the nearest
\* float, the same bytes), except that bytes read as string must be valid
\* UTF-8: bytes that are not are read as a decode error
C10_Promotion == YieldsEach(EquivalentOrNotUtf8)

\* Bytes written under "bytes" were read to the end under "string": two
\* values in one block, the first one UTF-8 and the second one not
C10_Witness ==
    /\ phase = "done"
    /\ reader_schema = Some(SchemaStr)
    /\ written = <<VBytes(BytesHi), VBytes(BytesNotUtf8)>>
    /\ Len(results) = 2
    /\ BlocksInSink = 1

\* ------------------------------------------------------------------------
\* Damaged input: what stands between the Writer's sink and the Reader's
\* source
\* ------------------------------------------------------------------------

\* Long and string values, all of them valid under their schema
FramingScenarios ==
    { MkScenario(SchemaLong, None, {VLong(1024), VLong(-1)}),
      MkScenario(SchemaStr, Some(SchemaStr), {VStr(BytesHi), VStr(BytesEAcute)}) }

\* The blocks of buf from pos on, as next_block frames them: the datum
\* count, where the count ends, where the payload starts and ends, where the
\* block ends,
\* whether all of its parts are there and whether its marker is the header's
RECURSIVE BlocksFrom(_, _, _)
BlocksFrom(buf, pos, marker) ==
    IF pos >= Len(buf) THEN <<>>
    ELSE With(read_varint(buf, pos), LAMBDA c :
         With(read_varint(buf, c.pos), LAMBDA l :
         With(read_exact(buf, l.pos, IF l.ok /\ l.val >= 0 THEN l.val ELSE 0), LAMBDA data :
         With(read_exact(buf, data.pos, SYNC_MARKER_SIZE), LAMBDA sync :
         IF c.ok /\ l.ok /\ l.val >= 0 /\ data.ok /\ sync.ok
         THEN <<[count |-> c.val, counted |-> c.pos, body |-> l.pos,
                 payload |-> data.pos, end |-> sync.pos, whole |-> TRUE,
                 synced |-> sync.val = marker]>>
              \o BlocksFrom(buf, sync.pos, marker)
         ELSE <<[count |-> IF c.ok THEN c.val ELSE 0, counted |-> c.pos,
                 body |-> l.pos, payload |-> data.pos, end |-> Len(buf),
                 whole |-> FALSE,
                 synced |-> FALSE]>>))))

\* The blocks of the Reader's source
SourceBlocks ==
    With(header_from_reader(out_stream), LAMBDA h :
    IF ~h.ok THEN <<>> ELSE BlocksFrom(out_stream, h.pos, h.hdr.sync_marker))

FlipBit(b) == IF b % 2 = 0 THEN b + 1 ELSE b - 1

\* One bit of the sync marker that closes a block is flipped
CorruptSyncMarker ==
    /\ phase = "written"
    /\ BlocksInSink >= 1
    /\ \E k \in 1..Len(SourceBlocks), i \in {1, SYNC_MARKER_SIZE} :
          out_stream' = [out_stream EXCEPT ![SourceBlocks[k].payload + i] = FlipBit(@)]
    /\ UNCHANGED <<setup_vars, parser_vars, block_stream, block_count, reader_vars, phase,
                   written, offered, last>>

RECURSIVE SumOf(_, _)
SumOf(f(_), s) == IF s = <<>> THEN 0 ELSE f(Head(s)) + SumOf(f, Tail(s))

\* The values the Reader has yielded
Yielded == SumOf(LAMBDA item : IF item.ok THEN 1 ELSE 0, results)

\* The errors the Reader has yielded
Failures == SumOf(LAMBDA item : IF item.ok THEN 0 ELSE 1, results)

\* The datums of the blocks that are whole and closed by the header's marker
DatumsInSyncedBlocks ==
    SumOf(LAMBDA b : IF b.whole /\ b.synced THEN b.count ELSE 0, SourceBlocks)

\* C11: a block whose 16 closing bytes differ from the header's sync marker
\* is failed: the Reader yields an error for it and never a value decoded
\* from it, so the values yielded are at most the datums of the other
\* blocks, and once the iteration has ended there is an error for each
\* such block
C11_SyncMismatchFailsBlock ==
    phase \in {"reading", "done"} =>
        /\ Yielded <= DatumsInSyncedBlocks
        /\ phase = "done" =>
               Failures >= SumOf(LAMBDA b : IF b.whole /\ ~b.synced THEN 1 ELSE 0,
                                 SourceBlocks)

\* The input ends inside a block: at some byte after the block's datum count
\* and before the block's end
Truncate ==
    /\ phase = "written"
    /\ BlocksInSink >= 1
    /\ \E k \in 1..Len(SourceBlocks) :
       \E n \in SourceBlocks[k].counted..(SourceBlocks[k].end - 1) :
          out_stream' = SubSeq(out_stream, 1, n)
    /\ UNCHANGED <<setup_vars, parser_vars, block_stream, block_count, reader_vars, phase,
                   written, offered, last>>

\* C12: when the input ends inside a block, after the block's datum count,
\* the iteration does not end without an error: once it has ended with no
\* error yielded, every block of the input is whole
C12_PartialBlockIsAnError ==
    (phase = "done" /\ Failures = 0) => \A k \in 1..Len(SourceBlocks) : SourceBlocks[k].whole

\* One bit is flipped in the uncompressed region of a snappy block's payload,
\* in its first or its last byte; the length, the tag and the CRC are kept
CorruptPayload ==
    /\ phase = "written"
    /\ BlocksInSink >= 1
    /\ \E k \in 1..Len(SourceBlocks) :
       \E i \in {SourceBlocks[k].body + 3, SourceBlocks[k].payload - CRC_CHECKSUM_LEN} :
          out_stream' = [out_stream EXCEPT ![i] = FlipBit(@)]
    /\ UNCHANGED <<setup_vars, parser_vars, block_stream, block_count, reader_vars, phase,
                   written, offered, last>>

\* Whether the payload of block b of the source passes Codec::decode
PayloadDecodes(b) ==
    b.whole /\ codec_decode(codec, SubSeq(out_stream, b.body + 1, b.payload), <<>>).ok

\* The datums of the blocks whose payload passes Codec::decode
DatumsInDecodedBlocks ==
    SumOf(LAMBDA b : IF PayloadDecodes(b) THEN b.count ELSE 0, SourceBlocks)

\* C13: a snappy block whose decompressed bytes do not have the CRC32 that
\* trails the payload is failed: the Reader yields an error for it and never
\* a value decoded from its bytes, on that call or a later one, so the values
\* yielded are at most the datums of the blocks that pass the check
C13_CrcMismatchFailsBlock ==
    phase \in {"reading", "done"} => Yielded <= DatumsInDecodedBlocks


\* One bit of one of the four magic bytes is flipped, and the input is kept
\* whole, cut after the magic bytes, or cut one byte later
CorruptMagic ==
    /\ phase = "written"
    /\ \E i \in 1..Len(MAGIC_BYTES) :
       \E n \in {Len(out_stream), Len(MAGIC_BYTES), Len(MAGIC_BYTES) + 1}
                 \cap (Len(MAGIC_BYTES)..Len(out_stream)) :
          out_stream' = [SubSeq(out_stream, 1, n) EXCEPT ![i] = FlipBit(@)]
    /\ UNCHANGED <<setup_vars, parser_vars, block_stream, block_count, reader_vars, phase,
                   written, offered, last>>

\* C14: a Reader is not constructed over an input whose first four bytes are
\* there and are not "Obj\x01": Reader::new fails with InvalidDataFile,
\* whatever follows the four bytes, and nothing is ever yielded
C14_BadMagicFailsFirst ==
    (/\ phase \notin {"writing", "written"}
     /\ Len(out_stream) >= Len(MAGIC_BYTES)
     /\ SubSeq(out_stream, 1, Len(MAGIC_BYTES)) # MAGIC_BYTES)
    => (phase = "failed" /\ last = "InvalidDataFile" /\ header = None /\ results = <<>>)

\* Reader::new has failed on wrong magic bytes that nothing follows
C14_Witness ==
    /\ phase = "failed"
    /\ last = "InvalidDataFile"
    /\ Len(out_stream) = Len(MAGIC_BYTES)
    /\ out_stream # MAGIC_BYTES

\* The 1-based position of the branch whose fullname is name, 0 if none:
\* an inline named type by its Name, a Named reference by its fullname
RECURSIVE BranchNamedFrom(_, _, _)
BranchNamedFrom(variants, name, i) ==
    IF i > Len(variants) THEN 0
    ELSE IF variants[i].tag \in {"Record", "Enum", "Fixed"} /\ fullname(variants[i].name) = name
    THEN i
    ELSE IF variants[i].tag = "Named" /\ variants[i].fullname = name THEN i
    ELSE BranchNamedFrom(variants, name, i + 1)

\* What a Record value puts into the block when it goes to the branch of its
\* own name: the 0-based index of that branch, then its fields under it
UnderOwnBranch(value) ==
    With(BranchNamedFrom(schema.variant.variants, value.v.name, 1), LAMBDA i :
    IF i = 0 THEN <<>>
    ELSE encode_long(i - 1) \o encode(value, schema.variant.variants[i], schema.cxt).out)

\* C15: a Record value written under a union of several record branches goes
\* to the branch whose fullname is the Record's name: while nothing has been
\* flushed, the block holds, for each value written, that branch's index
\* followed by the value encoded under that branch
C15_RecordBranchByName ==
    (phase = "writing" /\ schema.variant.tag = "Union" /\ block_count = Len(written))
    => block_stream = Concat([i \in 1..Len(written) |-> UnderOwnBranch(written[i])])

\* ------------------------------------------------------------------------
\* Schemas handed to Schema::from_str, and names handed to Record::insert
\* ------------------------------------------------------------------------

FieldJson(name, ty) == JObj([name |-> JStr(name), type |-> ty])

RecordJson(name, fields) ==
    JObj([type |-> JStr("record"), name |-> JStr(name), fields |-> JArr(fields)])

RecordInJson(name, namespace, fields) ==
    JObj([type |-> JStr("record"), name |-> JStr(name), namespace |-> JStr(namespace),
          fields |-> JArr(fields)])

EnumJson(name, symbols) ==
    JObj([type |-> JStr("enum"), name |-> JStr(name), symbols |-> JArr(symbols)])

FixedJson(name, size) ==
    JObj([type |-> JStr("fixed"), name |-> JStr(name), size |-> JNum(size)])

\* Simple names: three of the grammar [A-Za-z_][A-Za-z0-9_]*, and names
\* that start with a digit, hold another character, or are empty
NameInputs == {"a", "_a", "a1", "1a", "a-b", "a b", "-", ""}

\* One record with one field, and one enum with one symbol, under every name
NamedInputs ==
    { RecordJson(n, <<FieldJson(f, JStr("long"))>>) : n \in NameInputs, f \in NameInputs }
    \cup { EnumJson("A", <<JStr(sym)>>) : sym \in NameInputs }

\* A record of two fields, named alike or not
TwoFieldInputs ==
    { RecordJson("R", <<FieldJson(f, t), FieldJson(g, u)>>) :
          f \in {"a", "b"}, g \in {"a", "b"}, t \in {JStr("long")},
          u \in {JStr("long"), JStr("string")} }

\* Record R, in namespace ns or in none, whose field a defines the fixed F
\* and whose field b refers to a type by the string ref
ReferenceNamespaces == {None, Some("ns")}
ReferenceNames == {"F", "ns.F", "R", "ns.R", "B", "x"}

ReferenceInput(ns, ref) ==
    IF ns = None
    THEN RecordJson("R", <<FieldJson("a", FixedJson("F", 2)), FieldJson("b", JStr(ref))>>)
    ELSE RecordInJson("R", ns[1],
                      <<FieldJson("a", FixedJson("F", 2)), FieldJson("b", JStr(ref))>>)

ReferenceInputs ==
    { ReferenceInput(ns, ref) : ns \in ReferenceNamespaces, ref \in ReferenceNames }

\* Two definitions of record A, with the same fields and with other fields
RecordADefs ==
    { RecordJson("A", <<FieldJson("x", JStr("long"))>>),
      RecordJson("A", <<FieldJson("y", JStr("string"))>>) }

\* The same record fullname defined twice: R inside R's own fields, A in two
\* fields of R, A in two branches of a union
DuplicateRecordInputs ==
    { RecordJson("R", <<FieldJson("a", RecordJson("R", <<>>))>>),
      RecordJson("R", <<FieldJson("a", JArr(<<JStr("null"), RecordJson("R", <<>>)>>))>>) }
    \cup { RecordJson("R", <<FieldJson("a", d), FieldJson("b", e)>>) :
               d \in RecordADefs, e \in RecordADefs }
    \cup { JArr(<<d, e>>) : d \in RecordADefs, e \in RecordADefs }

\* Branches of a union: primitives as a string and as an object, definitions
\* of named types, a reference, an array type and a union
BranchInputs ==
    { JStr("long"), JStr("null"), JObj([type |-> JStr("long")]),
      FixedJson("F", 2), FixedJson("F", 3), EnumJson("B", <<JStr("a")>>),
      JObj([type |-> JStr("array"), items |-> JStr("long")]),
      JStr("A"), JArr(<<JStr("null"), JStr("long")>>) }
    \cup RecordADefs

\* Unions of two and three branches at the top, and as the type of a field
UnionInputs ==
    { JArr(<<x, y>>) : x \in BranchInputs, y \in BranchInputs }
    \cup { JArr(<<x, y, x>>) : x \in BranchInputs, y \in {JStr("null"), FixedJson("F", 2)} }
    \cup { RecordJson("A", <<FieldJson("x", JArr(<<x, y>>))>>) :
               x \in BranchInputs, y \in {JStr("long"), JStr("A"), FixedJson("F", 2)} }

\* A record R whose one field a has a union of two branches for its type, and
\* a default
DefaultBranches ==
    { JStr("null"), JStr("long"), JStr("string"),
      JObj([type |-> JStr("array"), items |-> JStr("string")]) }

DefaultValues == {JNull, JNum(1), JStr("a"), JArr(<<JStr("a")>>), JArr(<<JNum(1)>>)}

DefaultInput(x, y, d) ==
    RecordJson("R", <<JObj([name |-> JStr("a"), type |-> JArr(<<x, y>>), default |-> d])>>)

DefaultInputs ==
    { DefaultInput(x, y, d) : x \in DefaultBranches, y \in DefaultBranches, d \in DefaultValues }

\* Schemas of every kind, to take the canonical form of: a primitive as a
\* string and as an object, a map, an array, and a record with a map for a
\* field and a documentation string
CanonicalInputs ==
    { JStr("long"), JStr("null"), JStr("int"), JObj([type |-> JStr("long")]),
      JObj([type |-> JStr("map"), values |-> JStr("long")]),
      JObj([type |-> JStr("array"), items |-> JStr("long")]),
      JObj([type |-> JStr("record"), name |-> JStr("R"), doc |-> JStr("a"),
            fields |-> JArr(<<FieldJson("a", JObj([type |-> JStr("map"),
                                                   values |-> JStr("long")]))>>)]) }

\* Records that refer to themselves, in a union, in an array and inside a
\* namespace, and two records that refer to each other
RecursiveInputs ==
    { RecordJson("R", <<FieldJson("x", JStr("long")),
                        FieldJson("a", JArr(<<JStr("null"), JStr("R")>>))>>),
      RecordJson("R", <<FieldJson("a", JObj([type |-> JStr("array"), items |-> JStr("R")]))>>),
      RecordInJson("R", "ns", <<FieldJson("a", JArr(<<JStr("null"), JStr("R")>>))>>),
      RecordJson("A", <<FieldJson("b", RecordJson("B", <<FieldJson("a", JStr("A"))>>)),
                        FieldJson("x", JStr("B"))>>) }

SchemaInputs ==
    NamedInputs \cup TwoFieldInputs \cup ReferenceInputs \cup DuplicateRecordInputs
    \cup UnionInputs \cup DefaultInputs \cup CanonicalInputs
    \cup RecursiveInputs

\* Field names a caller may insert, and how many fields it inserts at most
InsertNames == {"a", "_a", "1a", "a-b", ""}
MaxFields == 2

\* A caller with a schema text and a Record to build; no Writer, no Reader
InitParser ==
    /\ schema_json \in {Some(j) : j \in SchemaInputs}
    /\ from_str_result = None
    /\ built_record = RecordNew("R")
    /\ canonical_result = None
    /\ fingerprint = None
    /\ schema = SchemaNull
    /\ reader_schema = None
    /\ values = {}
    /\ sync_marker = SyncMarkerA
    /\ flush_interval = DEFAULT_FLUSH_INTERVAL
    /\ codec = "Null"
    /\ out_stream = <<>>
    /\ block_stream = <<>>
    /\ block_count = 0
    /\ phase = "schema"
    /\ source_pos = 0
    /\ header = None
    /\ block_buffer = <<>>
    /\ block_pos = 0
    /\ entries_in_block = 0
    /\ written = <<>>
    /\ offered = <<>>
    /\ results = <<>>
    /\ last = "Ok"

\* Schema::from_str on the caller's schema
FromStr ==
    /\ phase = "schema"
    /\ schema_json # None
    /\ from_str_result = None
    /\ \E r \in {parse_imp(schema_json[1])} :
          /\ from_str_result' = Some(r)
          /\ last' = IF r.ok THEN "Ok" ELSE r.err
    /\ UNCHANGED <<setup_vars, writer_vars, reader_vars, schema_json, built_record,
                   canonical_result, fingerprint, phase, written, offered>>

\* Schema::from_str on the text of schema.canonical_form(), for the Schema
\* that Schema::from_str returned
FromCanonicalForm ==
    /\ phase = "schema"
    /\ from_str_result # None
    /\ from_str_result[1].ok
    /\ canonical_result = None
    /\ \E r \in {parse_imp(normalized_schema(schema_json[1]))} :
          /\ canonical_result' = Some(r)
          /\ last' = IF r.ok THEN "Ok" ELSE r.err
    /\ UNCHANGED <<setup_vars, writer_vars, reader_vars, schema_json, from_str_result,
                   built_record, fingerprint, phase, written, offered>>

\* schema.canonical_form().rabin64(), for a Schema whose canonical form is a
\* JSON string
Rabin64 ==
    /\ phase = "schema"
    /\ from_str_result # None
    /\ from_str_result[1].ok
    /\ normalized_schema(schema_json[1]).j = "String"
    /\ fingerprint = None
    /\ fingerprint' = Some(rabin64(json_to_string(normalized_schema(schema_json[1]))))
    /\ UNCHANGED <<setup_vars, writer_vars, reader_vars, schema_json, from_str_result,
                   built_record, canonical_result, phase, written, offered, last>>

\* Record::insert(field_name, 1i64)
RecordInsert(field_name) ==
    /\ phase = "schema"
    /\ Len(built_record.fields) < MaxFields
    /\ IF validate_name(0, Chars(field_name)) # "Ok"
       THEN /\ last' = "InvalidName"
            /\ UNCHANGED built_record
       ELSE /\ built_record' = [built_record EXCEPT
                                   !.fields = IndexMapInsert(@, field_name, VLong(1))]
            /\ last' = "Ok"
    /\ UNCHANGED <<setup_vars, writer_vars, reader_vars, schema_json, from_str_result,
                   canonical_result, fingerprint, phase, written, offered>>

\* What Schema::from_str returned, once it has
Parsed == from_str_result[1]

\* The fullname of simple name n defined in namespace ns
InNamespace(n, ns) == IF ns = None THEN n ELSE ns[1] \o "." \o n

\* C16: a string that is no primitive name is a reference to the type of that
\* fullname: the string itself if it holds a dot, the enclosing namespace
\* joined to it otherwise.  Parsing fails exactly if that fullname is not in
\* the Registry yet; here the Registry holds record R and fixed F of R's
\* namespace when the reference is parsed, and the reference is field b's type
C16_NamedReference ==
    \A ns \in ReferenceNamespaces, ref \in ReferenceNames :
        (from_str_result # None /\ schema_json = Some(ReferenceInput(ns, ref)))
        => /\ Parsed.ok <=> get_fullname_qualified(ref, ns)
                                \in {InNamespace("R", ns), InNamespace("F", ns)}
           /\ Parsed.ok =>
                  Parsed.variant.fields[2].ty = SNamed(get_fullname_qualified(ref, ns))

\* C17: a record whose fields array names two fields alike does not parse:
\* Schema::from_str fails with DuplicateField
C17_DuplicateFieldFails ==
    (/\ from_str_result # None
     /\ schema_json[1] \in TwoFieldInputs
     /\ schema_json[1].o["fields"].a[1].o["name"] = schema_json[1].o["fields"].a[2].o["name"])
    => (~Parsed.ok /\ Parsed.err = "DuplicateField")

\* The simple names of an input of NamedInputs: the record's and its field's,
\* or the enum's and its symbol's
NamesOf(json) ==
    IF json.o["type"].s = "record"
    THEN {json.o["name"].s, json.o["fields"].a[1].o["name"].s}
    ELSE {json.o["name"].s, json.o["symbols"].a[1].s}

\* C18: a simple name is accepted exactly if it matches
\* [A-Za-z_][A-Za-z0-9_]*: a schema of one record and one field, or of one
\* enum and one symbol, parses exactly if its names match, fails with
\* InvalidName if not, and every field name a Record holds matches
C18_NameGrammar ==
    /\ (from_str_result # None /\ schema_json[1] \in NamedInputs)
       => /\ Parsed.ok <=> \A n \in NamesOf(schema_json[1]) :
                               validate_name_by_grammar(0, Chars(n)) = "Ok"
          /\ ~Parsed.ok => Parsed.err = "InvalidName"
    /\ \A i \in 1..Len(built_record.fields) :
           validate_name_by_grammar(0, Chars(built_record.fields[i][1])) = "Ok"

\* C19: a schema that defines the same record fullname twice does not parse,
\* wherever the second definition is: Schema::from_str fails with a
\* duplicate-schema error
C19_DuplicateRecordFails ==
    (from_str_result # None /\ schema_json[1] \in DuplicateRecordInputs)
    => (~Parsed.ok /\ Parsed.err \in {"DuplicateSchema", "DuplicateSchemaInUnion"})

\* Every union in variant has branches that are pairwise different and none
\* that is a union
RECURSIVE UnionsDistinct(_)
UnionsDistinct(variant) ==
    IF variant.tag = "Union"
    THEN /\ \A i \in 1..Len(variant.variants) :
                /\ variant.variants[i].tag # "Union"
                /\ UnionsDistinct(variant.variants[i])
                /\ \A k \in (i + 1)..Len(variant.variants) :
                       ~VariantEq(variant.variants[i], variant.variants[k])
    ELSE IF variant.tag = "Record"
    THEN \A i \in 1..Len(variant.fields) : UnionsDistinct(variant.fields[i].ty)
    ELSE IF variant.tag = "Array" THEN UnionsDistinct(variant.items)
    ELSE IF variant.tag = "Map" THEN UnionsDistinct(variant.values)
    ELSE TRUE

\* A JSON array with two equal elements, or with an array among its elements
HasEqualOrNestedBranch(a) ==
    \/ \E i \in 1..Len(a) : a[i].j = "Array"
    \/ \E i \in 1..Len(a) : \E k \in (i + 1)..Len(a) : a[i] = a[k]

DefaultMatches(d, branch) ==
    IF branch = JStr("null") THEN d.j = "Null"
    ELSE IF branch = JStr("long") THEN d.j = "Number"
    ELSE IF branch = JStr("string") THEN d.j = "String"
    ELSE d.j = "Array" /\ \A i \in 1..Len(d.a) : d.a[i].j = "String"

\* The value of default d as a value of that branch
DefaultAs(d, branch) ==
    IF branch = JStr("null") THEN VNull
    ELSE IF branch = JStr("long") THEN VLong(d.n)
    ELSE IF branch = JStr("string") THEN VStr(as_bytes(d.s))
    ELSE VArray([i \in 1..Len(d.a) |-> VStr(as_bytes(d.a[i].s))])

\* C21: the default of a field whose type is a union is parsed against the
\* first branch only: the schema parses exactly if the default matches the
\* first branch, and the field then holds the default as a value of that
\* branch; a default that matches a later branch only does not parse
C21_DefaultAgainstFirstBranch ==
    \A x \in DefaultBranches, y \in DefaultBranches, d \in DefaultValues :
        (x # y /\ from_str_result # None /\ schema_json = Some(DefaultInput(x, y, d)))
        => /\ Parsed.ok <=> DefaultMatches(d, x)
           /\ Parsed.ok => Parsed.variant.fields[1].default = Some(DefaultAs(d, x))

\* The default 1 of a field of type ["null", "long"] has been refused
C21_Witness ==
    /\ from_str_result # None
    /\ schema_json = Some(DefaultInput(JStr("null"), JStr("long"), JNum(1)))
    /\ ~Parsed.ok
    /\ Parsed.err = "DefaultValueParse"

\* C22: the canonical form of a schema that parsed, parsed in its turn, gives
\* the same Variant
C22_CanonicalFormParsesAlike ==
    canonical_result # None
    => /\ canonical_result[1].ok
       /\ VariantEq(canonical_result[1].variant, Parsed.variant)

\* The bits of natural n, the most significant of the width first
RECURSIVE BitsOf(_, _)
BitsOf(n, width) ==
    IF width = 0 THEN <<>> ELSE Append(BitsOf(n \div 2, width - 1), n % 2)

\* The 64 bits of an i64 kept as four words
Bits64(words) == BitsOf(words[1], 16) \o BitsOf(words[2], 16)
                 \o BitsOf(words[3], 16) \o BitsOf(words[4], 16)

Zeros(n) == [i \in 1..n |-> 0]
BitXor(a, b) == [i \in 1..Len(a) |-> (a[i] + b[i]) % 2]

\* fp >>> n on 64 bits
LogicalShift(fp, n) == Zeros(n) \o SubSeq(fp, 1, 64 - n)

\* 0xc15d213aa4d7a795, bit by bit
EmptyBits ==
    << 1,1,0,0, 0,0,0,1, 0,1,0,1, 1,1,0,1,  0,0,1,0, 0,0,0,1, 0,0,1,1, 1,0,1,0,
       1,0,1,0, 0,1,0,0, 1,1,0,1, 0,1,1,1,  1,0,1,0, 0,1,1,1, 1,0,0,1, 0,1,0,1 >>

\* fp = (fp >>> 1) XOR (EMPTY AND -(fp AND 1)), n times
RECURSIVE TableSteps(_, _)
TableSteps(fp, n) ==
    IF n = 0 THEN fp
    ELSE Strict(BitXor(LogicalShift(fp, 1), IF fp[64] = 1 THEN EmptyBits ELSE Zeros(64)),
                LAMBDA next : TableSteps(next, n - 1))

\* The fingerprint of bytes text from the i-th on, as the claim defines it:
\* fp = (fp >>> 8) XOR T[(fp XOR b) AND 0xff]
RECURSIVE FingerprintFrom(_, _, _)
FingerprintFrom(fp, text, i) ==
    IF i > Len(text) THEN fp
    ELSE Strict(BitXor(LogicalShift(fp, 8),
                       TableSteps(Zeros(56) \o BitXor(SubSeq(fp, 57, 64), BitsOf(text[i], 8)),
                                  8)),
                LAMBDA next : FingerprintFrom(next, text, i + 1))

\* C23: rabin64 of a canonical form is the fingerprint of its JSON text that
\* starts at 0xc15d213aa4d7a795 and takes each byte b with
\* fp = (fp >>> 8) XOR T[(fp XOR b) AND 0xff]; for the schema "null" it is
\* 0x63dd24e7cc258f8a
C23_Rabin64 ==
    fingerprint # None
    => /\ Bits64(fingerprint[1])
              = FingerprintFrom(EmptyBits, json_to_string(normalized_schema(schema_json[1])), 1)
       /\ schema_json = Some(JStr("null"))
              => fingerprint[1] = <<25565, 9447, 52261, 36746>>

\* The fingerprint of the schema "null" has been taken
C23_Witness ==
    /\ schema_json = Some(JStr("null"))
    /\ fingerprint = Some(<<25565, 9447, 52261, 36746>>)

\* Arrays under the schema of arrays of strings: ["a"], one whose second item
\* is a long, and the empty array
MixedArrayValues ==
    { VArray(<<VStr(<<97>>)>>), VArray(<<VStr(<<97>>), VLong(1)>>), VArray(<<>>) }

MixedArrayScenarios ==
    { MkScenario(SchemaArrayStr, None, MixedArrayValues),
      MkScenario(SchemaArrayStr, Some(SchemaArrayStr), MixedArrayValues) }

\* C24: a write that returns an error leaves the block buffer and the datum
\* count as they were before the call
C24_FailedWriteLeavesBuffer ==
    [][(phase = "writing" /\ phase' = "writing" /\ last' # "Ok")
       => (block_stream' = block_stream /\ block_count' = block_count)]_vars

\* C25: every value that validation accepts is encoded without error: the
\* values that got past validation are the values written
C25_ValidatedValuesEncode == offered = written

\* C26: write flushes exactly when the buffer, with the value encoded into
\* it, is at least as long as the flush interval: after a successful write
\* either the buffer is empty, the datum count 0 and one block with the
\* buffered datums is appended to the sink, or the buffer is shorter than the
\* interval and the sink is as it was
C26_WriteFlushesAtInterval ==
    [][(phase = "writing" /\ written' # written)
       => \E stream1 \in {block_stream
                            \o encode(written'[Len(written')], schema.variant, schema.cxt).out} :
          \/ /\ Len(stream1) >= flush_interval
             /\ block_stream' = <<>>
             /\ block_count' = 0
             /\ out_stream' = out_stream \o encode_long(block_count + 1)
                                  \o codec_encode(codec, stream1)
                                  \o encode_raw_bytes(sync_marker)
          \/ /\ Len(stream1) < flush_interval
             /\ block_stream' = stream1
             /\ block_count' = block_count + 1
             /\ out_stream' = out_stream]_vars

\* The string "hi", three bytes long when encoded, was written under a flush
\* interval of three bytes, and the buffer is empty
C26_Witness ==
    /\ phase = "writing"
    /\ flush_interval = SmallFlushInterval
    /\ written = <<VStr(BytesHi)>>
    /\ block_stream = <<>>
    /\ block_count = 0

\* C27: a flush at datum count 0 writes nothing and changes nothing of the
\* Writer (in the model such a step is a step of a Writer that leaves the
\* values written alone and returns Ok), so that every block of the sink
\* has a datum count of 1 or more
C27_FlushOfNothing ==
    /\ [](phase \in {"writing", "written"}
          => /\ BlocksInSink >= 0
             /\ \A k \in 1..Len(SourceBlocks) : SourceBlocks[k].count >= 1)
    /\ [][(phase = "writing" /\ block_count = 0 /\ written' = written /\ last' = "Ok")
          => UNCHANGED <<out_stream, block_stream, block_count>>]_vars

\* A Writer whose one write failed while encoding was flushed: the datum
\* count is 0 and the sink holds the header and no block
C27_Witness ==
    /\ phase = "writing"
    /\ offered # <<>>
    /\ written = <<>>
    /\ block_count = 0
    /\ last = "Ok"
    /\ BlocksInSink = 0

\* Every Named in variant has an entry in cxt that is a record, an enum or a
\* fixed
RECURSIVE NamedResolve(_, _)
NamedResolve(variant, cxt) ==
    IF variant.tag = "Named"
    THEN /\ variant.fullname \in DOMAIN cxt
         /\ cxt[variant.fullname].tag \in {"Record", "Enum", "Fixed"}
    ELSE IF variant.tag = "Record"
    THEN \A i \in 1..Len(variant.fields) : NamedResolve(variant.fields[i].ty, cxt)
    ELSE IF variant.tag = "Union"
    THEN \A i \in 1..Len(variant.variants) : NamedResolve(variant.variants[i], cxt)
    ELSE IF variant.tag = "Array" THEN NamedResolve(variant.items, cxt)
    ELSE IF variant.tag = "Map" THEN NamedResolve(variant.values, cxt)
    ELSE TRUE

\* C28: after a parse that succeeded every Named of the Variant and of the
\* Registry's entries has a Registry entry that is a record, an enum or a
\* fixed, and no placeholder
C28_NamedResolves ==
    (from_str_result # None /\ Parsed.ok)
    => /\ NamedResolve(Parsed.variant, Parsed.cxt)
       /\ \A n \in DOMAIN Parsed.cxt : NamedResolve(Parsed.cxt[n], Parsed.cxt)

\* Records A and B that refer to each other have parsed, and both are in the
\* Registry
C28_Witness ==
    /\ from_str_result # None
    /\ Parsed.ok
    /\ schema_json[1] \in RecursiveInputs
    /\ DOMAIN Parsed.cxt = {"A", "B"}
    /\ Parsed.variant.fields[1].ty.fields[1].ty = SNamed("A")

\* ------------------------------------------------------------------------
\* Specifications
\* ------------------------------------------------------------------------

Next ==
    \/ \E value \in values : Write(value)
    \/ Flush
    \/ IntoInner
    \/ ReaderNew
    \/ \E underflow \in {"panic", "wrap"} : ReaderNext(underflow)

\* Primitive schemas, with no reader schema or the writer's own
InitPrim == InitWith(PrimScenarios)
SpecPrim == InitPrim /\ [][Next]_vars

\* Arrays
InitArray == InitWith(ArrayScenarios)
SpecArray == InitArray /\ [][Next]_vars

\* Records read under reordered and smaller reader records
InitRecord == InitWith(RecordScenarios)
SpecRecord == InitRecord /\ [][Next]_vars

\* LongList read with the extra defaulted field
InitLongList == InitWith(LongListScenarios)
SpecLongList == InitLongList /\ [][Next]_vars

\* Enums
InitEnum == InitWith(EnumScenarios)
SpecEnum == InitEnum /\ [][Next]_vars

\* Fixed
InitFixed == InitWith(FixedScenarios)
SpecFixed == InitFixed /\ [][Next]_vars

\* Writer unions read with a non-union schema
InitUnion == InitWith(UnionScenarios)
SpecUnion == InitUnion /\ [][Next]_vars

\* Promoted pairs
InitPromotion == InitWith(PromotionScenarios)
SpecPromotion == InitPromotion /\ [][Next]_vars

Init == InitPrim
Spec == Init /\ [][Next]_vars

\* A file whose block markers may be damaged before it is read
InitFraming == InitWith(FramingScenarios)
NextSyncDamaged == Next \/ CorruptSyncMarker
SpecSyncDamaged == InitFraming /\ [][NextSyncDamaged]_vars

\* A file that may be cut short inside a block before it is read
NextTruncated == Next \/ Truncate
SpecTruncated == InitFraming /\ [][NextTruncated]_vars

\* Snappy blocks, one of them damaged in its payload before it is read
InitSnappy == InitCodec(FramingScenarios, "Snappy")
NextPayloadDamaged == Next \/ CorruptPayload
SpecPayloadDamaged == InitSnappy /\ [][NextPayloadDamaged]_vars

\* Records written under a union of two records
InitUnionOfRecords == InitWith(UnionOfRecordsScenarios)
SpecUnionOfRecords == InitUnionOfRecords /\ [][Next]_vars

\* Files whose magic bytes are damaged before they are read
NextMagicDamaged == Next \/ CorruptMagic
SpecMagicDamaged == InitFraming /\ [][NextMagicDamaged]_vars

\* Schemas parsed and Records built by a caller
\* Arrays whose later items are not of the items type
InitMixedArray == InitWith(MixedArrayScenarios)
SpecMixedArray == InitMixedArray /\ [][Next]_vars

NextParser ==
    \/ FromStr
    \/ FromCanonicalForm
    \/ Rabin64
    \/ \E field_name \in InsertNames : RecordInsert(field_name)
SpecParser == InitParser /\ [][NextParser]_vars

\* C29: a Reader given the schema the file was written with yields what a
\* Reader without a reader schema yields: at every step of such a Reader
\* that decodes a datum, the item appended and the cursor left behind are
\* those of decoding the datum under the writer schema alone.
C29_SameSchemaReadsAlike ==
    [][(/\ phase = "reading"
        /\ reader_schema = Some(header[1].schema)
        /\ results' # results)
       => \E nb \in {IF entries_in_block = 0
                      THEN next_block(out_stream, source_pos, header[1], entries_in_block,
                                      block_buffer, block_pos)
                      ELSE [err |-> "", buf |-> block_buffer, bpos |-> block_pos]} :
            nb.err = ""
            => \E plain \in {decode(header[1].schema.variant, nb.buf, nb.bpos,
                                     header[1].schema.cxt)} :
                 /\ results' = Append(results, IF plain.ok THEN ItemOk(plain.val)
                                               ELSE ItemErr(plain.err))
                 /\ block_pos' = plain.pos]_vars

InitSameSchema == InitWith(SameSchemaScenarios)
SpecSameSchema == InitSameSchema /\ [][Next]_vars

\* The datum count of a block of the input is lowered, down to 0; the
\* block's payload and marker are kept
CorruptCount ==
    /\ phase = "written"
    /\ BlocksInSink >= 1
    /\ \E k \in 1..Len(SourceBlocks) :
       \E n \in 0..(SourceBlocks[k].count - 1) :
          out_stream' = [out_stream EXCEPT ![SourceBlocks[k].counted] = write_varint(n)[1]]
    /\ UNCHANGED <<setup_vars, parser_vars, block_stream, block_count, reader_vars, phase,
                   written, offered, last>>

\* A file in which a block's datum count may be lowered before it is read
NextCountDamaged == Next \/ CorruptCount
SpecCountDamaged == InitFraming /\ [][NextCountDamaged]_vars

\* C30: the Reader's count of the datums left in the block never goes below
\* zero, and a block whose datum count is 0 yields no item and leaves the
\* count at zero: a call of next that takes such a block does not panic,
\* appends nothing to the results and does not decrement the count.
C30_CounterNeverBelowZero ==
    /\ [](entries_in_block >= 0)
    /\ [][(phase = "reading" /\ entries_in_block = 0)
          => \E nb \in {next_block(out_stream, source_pos, header[1], entries_in_block,
                                    block_buffer, block_pos)} :
               (nb.err = "" /\ nb.entries = 0)
               => (phase' # "panicked" /\ results' = results /\ entries_in_block' = 0)]_vars

====
